---- MODULE Spec2Model ----
(***************************************************************************)
(* The audit orchestration engine of thinkshipcore: the auditor registry,  *)
(* the concurrent runner (runAudits), its failure isolation, its progress  *)
(* events and the report it assembles.                                     *)
(*                                                                         *)
(* One call of runAudits is modelled on the JavaScript event loop: the     *)
(* synchronous part of the call (URL validation, the types.map fan-out up  *)
(* to the first throw) is one step; the settlement of each auditor's       *)
(* run() promise is a step of the environment; the runner's .catch/.then   *)
(* reaction to one settled promise is one step; the continuation after     *)
(* Promise.all is one step.                                                *)
(*                                                                         *)
(* Around the engine: summarizeLogs on its own, the HTTP controller        *)
(* (analyzeAll, analyzeDeep and their response cache, analyzeDeepProgress  *)
(* and its SSE stream), fetchWithTimeout, and the link-health phase of the *)
(* SEO auditor (mapWithConcurrency).  Each has its own specification over  *)
(* the one initial state.                                                  *)
(***************************************************************************)
EXTENDS Integers, Sequences, FiniteSets, Bags, TLC

VARIABLES registry, regError, pc, input, options, url, types, slots, events, report, error,
          sumAudits, summary, sumPc,
          requests, cache, now, cacheTtl, lastResponse, lastComputed,
          spc, connectionClosed, fired, baselineStartedCount, baselineCompletedCount,
          baselineTotalCount, latestProgress, deepAnalysisInterval, liveTimers,
          elapsedSeconds, sse, resEnded, nextError, standardReport, responsePayload,
          streamDeepCalls,
          ftPc, ftTimeoutMs, ftTimer, ftAborted, ftElapsed, ftSettledAt, ftFetcher, ftOutcome,
          mapPc, items, concurrency, nextIndex, results, workers, iteratorCalls,
          inFlight, maxInFlight, linkHealth

\* state of the registry and of one call of runAudits
runnerVars == <<registry, regError, pc, input, options, url, types, slots, events, report, error>>

\* state of one call of summarizeLogs on its own: the audits it is given,
\* the summary it returns, and whether it has returned or thrown
summaryVars == <<sumAudits, summary, sumPc>>

\* state of analyzeAll and analyzeDeep: the requests in flight, the module's
\* controllerResponseCache and CACHE_TTL_MS, the clock, the last answer given
\* and when, and for each request identity the last answer computed for it and when
restVars == <<requests, cache, now, cacheTtl, lastResponse, lastComputed>>

\* state of one analyzeDeepProgress call: its position, its locals, the events
\* of the connection that have fired, the SSE log and the end of the response
streamVars == <<spc, connectionClosed, fired, baselineStartedCount, baselineCompletedCount,
                baselineTotalCount, latestProgress, deepAnalysisInterval, liveTimers,
                elapsedSeconds, sse, resEnded, nextError, standardReport, responsePayload,
                streamDeepCalls>>

controllerVars == <<restVars, streamVars>>

\* state of one call of fetchWithTimeout: its position, its timeoutMs, its
\* setTimeout timer, whether controller.signal is aborted, the time since the
\* call and at its settlement, how the fetcher settled and how the call did
fetchVars == <<ftPc, ftTimeoutMs, ftTimer, ftAborted, ftElapsed, ftSettledAt, ftFetcher, ftOutcome>>

\* state of one call of analyzeLinkHealth / mapWithConcurrency: its position,
\* its arguments, its locals nextIndex and results, each worker's position,
\* how often the iterator was called for each index, the iterator calls in
\* flight with the most there were at one moment (the counters of the test),
\* and what analyzeLinkHealth returned
linkVars == <<mapPc, items, concurrency, nextIndex, results, workers, iteratorCalls,
              inFlight, maxInFlight, linkHealth>>

utilVars == <<fetchVars, linkVars>>

vars == <<runnerVars, summaryVars, controllerVars, utilVars>>

(***************************************************************************)
(* Bounds                                                                  *)
(***************************************************************************)
\* longest requested key sequence (input.types) that is enumerated
MaxTypes == 2
\* longest audits array handed to summarizeLogs on its own
MaxAudits == 3
\* request slots of /all and /deep that can be in flight together
MaxRequests == 2
\* steps the clock takes
MaxTicks == 3
\* heartbeats one pending runDeepAudit call is given
MaxHeartbeats == 16
\* steps the clock of one fetchWithTimeout call takes
MaxFetchTicks == 6
\* most links of a page that are checked
MaxLinks == 7

(***************************************************************************)
(* Auditors and the values they produce                                    *)
(***************************************************************************)
\* auditor objects that may be offered to register(); the last has no key
Auditors ==
  { [key |-> "perf", name |-> "Performance Auditor"],
    [key |-> "seo",  name |-> "SEO Auditor"],
    [key |-> "perf", name |-> "Second Performance Auditor"],
    [key |-> "",     name |-> "Keyless Auditor"] }

\* keys a caller may request: the registrable ones and one nobody registers
RequestableKeys == {"perf", "seo", "unknown"}

LOG_LEVEL == [INFO |-> "INFO", WARNING |-> "WARNING", ERROR |-> "ERROR"]

\* logs.some(entry => entry.level === level)
SomeLevel(logs, level) == \E i \in 1..Len(logs) : logs[i].level = level

\* a derivation that forgets the WARNING case
deriveStatusNoWarn(logs) ==
  IF SomeLevel(logs, LOG_LEVEL.ERROR) THEN "FAIL" ELSE "PASS"

deriveStatus(logs) ==
  IF SomeLevel(logs, LOG_LEVEL.ERROR) THEN "FAIL"
  ELSE IF SomeLevel(logs, LOG_LEVEL.WARNING) THEN "WARN"
  ELSE "PASS"

\* details: {} (no score) and details: {score: n}; scoreType is typeof
\* details.score and finite is Number.isFinite(details.score)
NoScore == [present |-> TRUE, scoreType |-> "undefined", finite |-> FALSE, score |-> 0]
Score(n) == [present |-> TRUE, scoreType |-> "number", finite |-> TRUE, score |-> n]
\* a result without details, details: {score: "90"} and details: {score: NaN}
NoDetails == [present |-> FALSE, scoreType |-> "undefined", finite |-> FALSE, score |-> 0]
StringScore == [present |-> TRUE, scoreType |-> "string", finite |-> FALSE, score |-> 90]
NaNScore == [present |-> TRUE, scoreType |-> "number", finite |-> FALSE, score |-> 0]

\* the (details, logs) pairs an auditor's run() may come back with
ResultBodies ==
  { [details |-> Score(100), logs |-> << [level |-> "INFO", message |-> "ok"] >>],
    [details |-> Score(80),
     logs |-> << [level |-> "WARNING", message |-> "Missing meta description"] >>],
    [details |-> NoScore, logs |-> << [level |-> "ERROR", message |-> "LCP > 2.5s"] >>] }

\* the AuditResult an auditor builds from its logs (status: deriveStatus(logs))
AuditorResult(auditor, body) ==
  [key |-> auditor.key, name |-> auditor.name, status |-> deriveStatus(body.logs),
   details |-> body.details, hasLogs |-> TRUE, logs |-> body.logs]

\* errors a run() promise may reject with: an Error with a message, and a
\* value without one (error?.message is undefined)
RunErrors == { [hasMessage |-> TRUE, message |-> "404 Not Found"],
               [hasMessage |-> FALSE, message |-> ""] }

NoResult == [key |-> "", name |-> "", status |-> "", details |-> NoScore,
             hasLogs |-> TRUE, logs |-> <<>>]
NoRunError == [hasMessage |-> FALSE, message |-> ""]
Pending == [kind |-> "pending", value |-> NoResult, error |-> NoRunError]

\* the ways the promise returned by auditor.run(input) may settle
Outcomes(auditor) ==
  { [kind |-> "fulfilled", value |-> AuditorResult(auditor, b), error |-> NoRunError]
      : b \in ResultBodies }
  \cup { [kind |-> "rejected", value |-> NoResult, error |-> e] : e \in RunErrors }

(***************************************************************************)
(* AuditRegistry                                                           *)
(***************************************************************************)
\* a membership test that never finds the key
RegistryHasNever(reg, key) == FALSE

\* Map.has(key) on the insertion-ordered map
RegistryHas(reg, key) == \E i \in 1..Len(reg) : reg[i].key = key

\* registry.get(key): <<auditor>> when present, <<>> for undefined
RegistryGet(reg, key) ==
  IF RegistryHas(reg, key)
  THEN << reg[CHOOSE i \in 1..Len(reg) : reg[i].key = key] >>
  ELSE <<>>

\* the keys, last registered first
RegistryKeysReversed(reg) == [i \in 1..Len(reg) |-> reg[Len(reg) + 1 - i].key]

\* registry.keys(): the keys in insertion order
RegistryKeys(reg) == [i \in 1..Len(reg) |-> reg[i].key]

(***************************************************************************)
(* assertValidUrl                                                          *)
(***************************************************************************)
\* raw input.url values: the text and the components the URL parser sees
UrlInputs ==
  { [text |-> "https://example.com", scheme |-> "https:", host |-> "example.com", path |-> ""],
    [text |-> "http://EXAMPLE.com/a", scheme |-> "http:", host |-> "EXAMPLE.com", path |-> "/a"],
    [text |-> "ftp://example.com", scheme |-> "ftp:", host |-> "example.com", path |-> ""],
    [text |-> "not-a-url", scheme |-> "", host |-> "", path |-> "not-a-url"],
    [text |-> "https://", scheme |-> "https:", host |-> "", path |-> ""] }

HTTP_PROTOCOLS == {"http:", "https:"}

LowerCaseHost(host) == IF host = "EXAMPLE.com" THEN "example.com" ELSE host

\* new URL(input): <<>> when the constructor throws (no scheme, or a special
\* scheme without a host), else the parsed URL with host lower-cased and an
\* empty path replaced by "/"
NewURL(raw) ==
  IF raw.scheme = "" \/ raw.host = ""
  THEN <<>>
  ELSE << [protocol |-> raw.scheme, host |-> LowerCaseHost(raw.host),
           pathname |-> IF raw.path = "" THEN "/" ELSE raw.path] >>

\* parsed.toString()
UrlToString(parsed) == parsed.protocol \o "//" \o parsed.host \o parsed.pathname

InvalidUrlError(raw) == [name |-> "InvalidUrlError", message |-> "Invalid URL: " \o raw.text]

NoError == [name |-> "", message |-> ""]

\* assertValidUrl without the protocol check
assertValidUrlAnyScheme(raw) ==
  LET parsed == NewURL(raw) IN
    IF parsed = <<>> THEN [ok |-> FALSE, url |-> "", error |-> InvalidUrlError(raw)]
    ELSE [ok |-> TRUE, url |-> UrlToString(parsed[1]), error |-> NoError]

\* assertValidUrl(input): the normalized URL, or the InvalidUrlError thrown
assertValidUrl(raw) ==
  LET parsed == NewURL(raw) IN
    IF parsed = <<>> THEN [ok |-> FALSE, url |-> "", error |-> InvalidUrlError(raw)]
    ELSE IF parsed[1].protocol \notin HTTP_PROTOCOLS
      THEN [ok |-> FALSE, url |-> "", error |-> InvalidUrlError(raw)]
    ELSE [ok |-> TRUE, url |-> UrlToString(parsed[1]), error |-> NoError]

(***************************************************************************)
(* summarizeLogs                                                           *)
(***************************************************************************)
\* a count of the audits that have an entry of the level, not of the entries
CountLevelOncePerAudit(logs, level) ==
  IF \E i \in 1..Len(logs) : logs[i].level = level THEN 1 ELSE 0

RECURSIVE CountLevel(_, _)
\* number of entries of one level in one logs array
CountLevel(logs, level) ==
  IF logs = <<>> THEN 0
  ELSE (IF Head(logs).level = level THEN 1 ELSE 0) + CountLevel(Tail(logs), level)

\* audit.logs without the `?? []` default: not iterable when logs is missing
LogsOfNoDefault(audit) ==
  [iterable |-> audit.hasLogs, entries |-> IF audit.hasLogs THEN audit.logs ELSE <<>>]

\* audit.logs ?? []: the array the for-of loop iterates
LogsOf(audit) ==
  [iterable |-> TRUE, entries |-> IF audit.hasLogs THEN audit.logs ELSE <<>>]

\* a read of audit.details.score without optional chaining: throws when
\* details is missing
ScoreReadNoChaining(audit) ==
  [throws |-> ~audit.details.present,
   isFiniteNumber |-> audit.details.present /\ audit.details.scoreType = "number"
                        /\ audit.details.finite,
   value |-> audit.details.score]

\* maybeScore = audit?.details?.score, with the test
\* typeof maybeScore === "number" && Number.isFinite(maybeScore)
ScoreRead(audit) ==
  [throws |-> FALSE,
   isFiniteNumber |-> audit.details.present /\ audit.details.scoreType = "number"
                        /\ audit.details.finite,
   value |-> audit.details.score]

\* whether the loop over the audits throws a TypeError: a property read of
\* undefined, or a for-of over a value that is not iterable
summarizeLogsThrows(audits) ==
  \E i \in 1..Len(audits) : ScoreRead(audits[i]).throws \/ ~LogsOf(audits[i]).iterable

RECURSIVE SumLevel(_, _)
\* the infoCount / warningCount / errorCount accumulation over all audits
SumLevel(audits, level) ==
  IF audits = <<>> THEN 0
  ELSE CountLevel(LogsOf(Head(audits)).entries, level) + SumLevel(Tail(audits), level)

IsFindingLevel(level) == level = "WARNING" \/ level = "ERROR"

RECURSIVE FindingsOfLogs(_, _)
\* the findings pushed for one audit, in log order
FindingsOfLogs(audit, logs) ==
  IF logs = <<>> THEN <<>>
  ELSE (IF IsFindingLevel(Head(logs).level)
        THEN << [level |-> Head(logs).level, auditKey |-> audit.key,
                 auditName |-> audit.name, message |-> Head(logs).message] >>
        ELSE <<>>)
       \o FindingsOfLogs(audit, Tail(logs))

RECURSIVE CollectFindings(_)
\* the findings array before sorting: audit order, then log order
CollectFindings(audits) ==
  IF audits = <<>> THEN <<>>
  ELSE FindingsOfLogs(Head(audits), LogsOf(Head(audits)).entries)
       \o CollectFindings(Tail(audits))

IsErrorFinding(f) == f.level = "ERROR"
IsWarningFinding(f) == f.level = "WARNING"

\* a sort that leaves the findings in the order in which they were pushed
SortFindingsNoop(findings) == findings

\* findings.sort(...): a stable sort whose comparator puts ERROR before any
\* other level and leaves equal levels in place
SortFindings(findings) ==
  SelectSeq(findings, IsErrorFinding) \o SelectSeq(findings, IsWarningFinding)

\* findings.slice(0, 5)
TOP_FINDINGS == 5
SliceTop(findings) == SubSeq(findings, 1, IF Len(findings) < TOP_FINDINGS THEN Len(findings) ELSE TOP_FINDINGS)

RECURSIVE CollectScores(_)
\* scoreParts: every finite numeric details.score, in audit order
CollectScores(audits) ==
  IF audits = <<>> THEN <<>>
  ELSE (IF ScoreRead(Head(audits)).isFiniteNumber
        THEN << ScoreRead(Head(audits)).value >> ELSE <<>>)
       \o CollectScores(Tail(audits))

RECURSIVE SumSeq(_)
SumSeq(xs) == IF xs = <<>> THEN 0 ELSE Head(xs) + SumSeq(Tail(xs))

\* Math.floor(sum / n)
FlooredMean(xs) == SumSeq(xs) \div Len(xs)

\* Math.round(sum / n) for a non-negative sum: halves round up
RoundedMean(xs) == (2 * SumSeq(xs) + Len(xs)) \div (2 * Len(xs))

NoScoring == [isNull |-> TRUE, score |-> 0, outOf |-> 0]

summarizeLogs(audits) ==
  LET scoreParts == CollectScores(audits)
      hasScore == scoreParts # <<>>
      overallScore == IF hasScore THEN RoundedMean(scoreParts) ELSE 0
  IN [ totalAudits |-> Len(audits),
       infoCount |-> SumLevel(audits, "INFO"),
       warningCount |-> SumLevel(audits, "WARNING"),
       errorCount |-> SumLevel(audits, "ERROR"),
       overallScoreIsNull |-> ~hasScore,
       overallScore |-> overallScore,
       scoring |-> IF hasScore THEN [isNull |-> FALSE, score |-> overallScore, outOf |-> 100]
                   ELSE NoScoring,
       topFindings |-> SliceTop(SortFindings(CollectFindings(audits))) ]

(***************************************************************************)
(* runAudits                                                               *)
(***************************************************************************)
\* the values options.onAuditEvent may have
SinkKinds == {"function", "absent", "nonfunction"}

\* the sink used whatever options.onAuditEvent is
onAuditEventAlways(opts) == TRUE

\* typeof options.onAuditEvent === "function" ? options.onAuditEvent : null
\* (TRUE: a sink is used, FALSE: null)
onAuditEvent(opts) == opts.onAuditEvent = "function"

\* input.types ?? registry.keys()
ResolveTypes(in, reg) == IF in.hasTypes THEN in.types ELSE RegistryKeys(reg)

\* index of the first requested key the registry does not hold, Len + 1 if none
FirstUnknown(ts, reg) ==
  IF \A i \in 1..Len(ts) : RegistryHas(reg, ts[i]) THEN Len(ts) + 1
  ELSE CHOOSE i \in 1..Len(ts) :
         /\ ~RegistryHas(reg, ts[i])
         /\ \A j \in 1..(i - 1) : RegistryHas(reg, ts[j])

\* a fan-out that launches the first auditor only
LaunchedCountSequential(ts, reg) ==
  IF FirstUnknown(ts, reg) > 1 THEN 1 ELSE 0

\* number of iterations of the types.map callback that reach runAuditorSafely:
\* map runs the callback synchronously, key after key, until one throws
LaunchedCount(ts, reg) == FirstUnknown(ts, reg) - 1

UnknownAuditType(type) == [name |-> "Error", message |-> "Unknown audit type: " \o type]

StartedEvent(auditor) ==
  [type |-> "audit_started", auditKey |-> auditor.key, auditName |-> auditor.name,
   result |-> NoResult]

\* a completion type that reports every status but PASS as a failure
completedTypeNotPass(result) ==
  IF result.status # "PASS" THEN "audit_failed" ELSE "audit_completed"

\* result?.status === "FAIL" ? "audit_failed" : "audit_completed"
completedType(result) ==
  IF result.status = "FAIL" THEN "audit_failed" ELSE "audit_completed"

\* a completion event that leaves the result out
CompletionEventNoResult(auditor, result) ==
  [type |-> completedType(result), auditKey |-> auditor.key, auditName |-> auditor.name,
   result |-> NoResult]

\* the event passed to the sink in the .then callback
CompletionEvent(auditor, result) ==
  [type |-> completedType(result), auditKey |-> auditor.key, auditName |-> auditor.name,
   result |-> result]

\* auditor.run(input) without the .catch
runAuditorUnsafely(auditor, outcome) == outcome

\* a .catch that drops the message of the error it caught
runAuditorSafelyNoMessage(auditor, outcome) ==
  IF outcome.kind = "rejected"
  THEN [ kind |-> "fulfilled",
         value |-> [ key |-> auditor.key, name |-> auditor.name, status |-> "FAIL",
                     details |-> NoScore, hasLogs |-> TRUE,
                     logs |-> << [ level |-> "ERROR", message |-> "Unknown auditor error" ] >> ],
         error |-> NoRunError ]
  ELSE outcome

\* auditor.run(input).catch(...): how the guarded promise settles, given how
\* the promise of run() settled
runAuditorSafely(auditor, outcome) ==
  IF outcome.kind = "rejected"
  THEN [ kind |-> "fulfilled",
         value |-> [ key |-> auditor.key, name |-> auditor.name, status |-> "FAIL",
                     details |-> NoScore, hasLogs |-> TRUE,
                     logs |-> << [ level |-> "ERROR",
                                   message |-> IF outcome.error.hasMessage
                                               THEN outcome.error.message
                                               ELSE "Unknown auditor error" ] >> ],
         error |-> NoRunError ]
  ELSE outcome

\* a join that fires as soon as one element promise has fulfilled
AnyHandled(ss) == ss = <<>> \/ \E i \in 1..Len(ss) : ss[i].state = "handled"

\* Promise.all: fulfils once every element promise has fulfilled
AllHandled(ss) == \A i \in 1..Len(ss) : ss[i].state = "handled"

RECURSIVE ByCompletion(_, _)
\* the results in the order in which the promises were handled
ByCompletion(ss, n) ==
  IF n > Len(ss) THEN <<>>
  ELSE << ss[CHOOSE i \in 1..Len(ss) : ss[i].handledAt = n].result >> \o ByCompletion(ss, n + 1)

\* an audits array filled in completion order
AuditsByCompletion(ss) == ByCompletion(ss, 1)

\* the array Promise.all fulfils with: element i is the value of promise i
JoinedAudits(ss) == [i \in 1..Len(ss) |-> ss[i].result]

\* number of element promises that have settled so far
HandledCount(ss) == Cardinality({i \in 1..Len(ss) : ss[i].state \in {"handled", "failed"}})

(***************************************************************************)
(* Inputs                                                                  *)
(***************************************************************************)
RECURSIVE SeqsUpTo(_, _)
SeqsUpTo(S, n) ==
  IF n = 0 THEN { <<>> }
  ELSE LET shorter == SeqsUpTo(S, n - 1)
       IN shorter \cup { Append(s, x) : s \in {t \in shorter : Len(t) = n - 1}, x \in S }

\* the input objects a caller may pass: url, and types present or omitted
AuditInputs ==
  { [url |-> u, hasTypes |-> TRUE, types |-> ts]
      : u \in UrlInputs, ts \in SeqsUpTo(RequestableKeys, MaxTypes) }
  \cup { [url |-> u, hasTypes |-> FALSE, types |-> <<>>] : u \in UrlInputs }

NoInput == [url |-> [text |-> "", scheme |-> "", host |-> "", path |-> ""],
            hasTypes |-> FALSE, types |-> <<>>]

(***************************************************************************)
(* HTTP controller: request parsing, the response cache and the decision   *)
(* to skip the deep analysis                                               *)
(***************************************************************************)
\* the scopes of the two cached endpoints, POST /all and POST /deep
Endpoints == {"all", "deep"}

DEFAULT_CACHE_TTL_MS == 60000

\* the values AUDIT_CACHE_TTL_MS can give CACHE_TTL_MS: unset (the default),
\* "0", "-1", and a text Number() turns into NaN
TtlSettings ==
  { [finite |-> TRUE, ms |-> DEFAULT_CACHE_TTL_MS],
    [finite |-> TRUE, ms |-> 0],
    [finite |-> TRUE, ms |-> -1],
    [finite |-> FALSE, ms |-> 0] }

\* one step of the clock: half of the default TTL
ClockStep == DEFAULT_CACHE_TTL_MS \div 2

\* req.body of the cached endpoints: { url, types: ["perf"] },
\* { url, types: [" perf "] }, which parses to the same input, and {}
CacheBodies ==
  { [url |-> "https://example.com", hasTypes |-> TRUE, types |-> <<"perf">>],
    [url |-> "https://example.com", hasTypes |-> TRUE, types |-> <<" perf ">>],
    [url |-> "", hasTypes |-> FALSE, types |-> <<>>] }

\* req.body of the stream: those, and { url }, which runs the default audits
Bodies == CacheBodies \cup {[url |-> "https://example.com", hasTypes |-> FALSE, types |-> <<>>]}

ValidationError(message) == [name |-> "ValidationError", message |-> message]

NoParsedInput == [url |-> "", timeoutMs |-> 0, hasTypes |-> FALSE, types |-> <<>>]

\* parseCommonAuditInput: url is required; an absent timeoutMs parses to 0 and
\* an absent pageSpeedApiKey to undefined (a key JSON.stringify leaves out)
parseCommonAuditInput(body) ==
  IF body.url = ""
  THEN [ok |-> FALSE, error |-> ValidationError("url is required and must be a string"),
        value |-> NoParsedInput]
  ELSE [ok |-> TRUE, error |-> NoError,
        value |-> [url |-> body.url, timeoutMs |-> 0, hasTypes |-> FALSE, types |-> <<>>]]

\* String.prototype.trim on the type texts of Bodies
Trim(s) == IF s = " perf " THEN "perf" ELSE s

\* typesRaw.map((type) => String(type).trim()).filter(Boolean)
TrimmedTypes(typesRaw) ==
  SelectSeq([i \in 1..Len(typesRaw) |-> Trim(typesRaw[i])], LAMBDA t : t # "")

parseAllAuditsInput(body) ==
  LET common == parseCommonAuditInput(body) IN
  IF ~common.ok THEN common
  ELSE IF ~body.hasTypes THEN common
  ELSE [common EXCEPT !.value = [common.value EXCEPT !.hasTypes = TRUE,
                                                     !.types = TrimmedTypes(body.types)]]

RECURSIVE JoinComma(_)
JoinComma(ts) ==
  IF ts = <<>> THEN ""
  ELSE IF Len(ts) = 1 THEN ts[1]
  ELSE ts[1] \o "," \o JoinComma(Tail(ts))

\* JSON.stringify(input) of a parsed input
JsonStringify(in) ==
  "{url:" \o in.url \o ",timeoutMs:" \o ToString(in.timeoutMs)
    \o (IF in.hasTypes THEN ",types:[" \o JoinComma(in.types) \o "]" ELSE "") \o "}"

\* buildCacheKey that leaves the scope out of the key
buildCacheKeyNoScope(scope, in) == JsonStringify(in)

buildCacheKey(scope, in) == scope \o ":" \o JsonStringify(in)

\* !Number.isFinite(CACHE_TTL_MS) || CACHE_TTL_MS <= 0 is the disabled cache
CacheEnabled(ttl) == ttl.finite /\ ttl.ms > 0

\* Map.prototype.set and Map.prototype.delete on controllerResponseCache
MapSet(map, key, value) ==
  [k \in DOMAIN map \cup {key} |-> IF k = key THEN value ELSE map[k]]

MapDelete(map, key) == [k \in DOMAIN map \ {key} |-> map[k]]

\* summary.overallScore and summary.errorCount of a baseline report
Summary(isNull, score, errors) ==
  [overallScoreIsNull |-> isNull, overallScore |-> score, errorCount |-> errors]

NoSummary == Summary(TRUE, 0, 0)

Report(n, s) == [audits |-> n, summary |-> s]

NoReport == Report(0, NoSummary)

\* the summaries runAllAudits resolves with: no score at all, a score below
\* the threshold, a score on it, and a high score beside an ERROR entry
Summaries == {Summary(TRUE, 0, 0), Summary(FALSE, 89, 0), Summary(FALSE, 90, 0),
              Summary(FALSE, 96, 1)}

\* shouldSkipDeepAnalysis with > in place of >=
shouldSkipDeepAnalysisAbove(rep) ==
  /\ ~rep.summary.overallScoreIsNull
  /\ rep.summary.overallScore > 90
  /\ rep.summary.errorCount = 0

shouldSkipDeepAnalysis(rep) ==
  /\ ~rep.summary.overallScoreIsNull
  /\ rep.summary.overallScore >= 90
  /\ rep.summary.errorCount = 0

createNominalDeepAnalysis ==
  [agent_status |-> "SYSTEM_NOMINAL",
   summary |-> "Core audit results are healthy. Deep analysis skipped for faster response."]

\* what runDeepAudit resolves with: a plan of the model, a model's own
\* SYSTEM_NOMINAL verdict, or its fallback after a timeout or upstream failure
DeepAnalyses ==
  { [agent_status |-> "CRITICAL_OPTIMIZATION_REQUIRED", summary |-> "deep response"],
    [agent_status |-> "SYSTEM_NOMINAL", summary |-> "deep response"],
    [agent_status |-> "CONNECTION_LOST", summary |-> "fallback"] }

NoAnalysis == [agent_status |-> "", summary |-> ""]

\* the JSON body of a 200 response: the report, and for /deep its deepAnalysis
Payload(rep, hasDeep, analysis) ==
  [report |-> rep, hasDeepAnalysis |-> hasDeep, deepAnalysis |-> analysis]

NoPayload == Payload(NoReport, FALSE, NoAnalysis)

\* a lookup that still serves an entry at the very moment it expires
getCachedResponseUntilAfter(map, ttl, at, key) ==
  IF ~CacheEnabled(ttl) \/ key \notin DOMAIN map
  THEN [hit |-> FALSE, payload |-> NoPayload, cache |-> map]
  ELSE IF map[key].expiresAt < at
  THEN [hit |-> FALSE, payload |-> NoPayload, cache |-> MapDelete(map, key)]
  ELSE [hit |-> TRUE, payload |-> map[key].payload, cache |-> map]

\* getCachedResponse: the payload of a live entry; an expired entry is deleted
getCachedResponse(map, ttl, at, key) ==
  IF ~CacheEnabled(ttl) \/ key \notin DOMAIN map
  THEN [hit |-> FALSE, payload |-> NoPayload, cache |-> map]
  ELSE IF map[key].expiresAt <= at
  THEN [hit |-> FALSE, payload |-> NoPayload, cache |-> MapDelete(map, key)]
  ELSE [hit |-> TRUE, payload |-> map[key].payload, cache |-> map]

setCachedResponse(map, ttl, at, key, payload) ==
  IF ~CacheEnabled(ttl) THEN map
  ELSE MapSet(map, key, [payload |-> payload, expiresAt |-> at + ttl.ms])

\* the auditors of the default registry, one route each
DEFAULT_AUDIT_TYPES == <<"perf", "seo", "security">>

\* how many audits a report of the parsed input holds
AuditCount(in) ==
  IF in.hasTypes /\ Len(in.types) > 0 THEN Len(in.types) ELSE Len(DEFAULT_AUDIT_TYPES)

(***************************************************************************)
(* analyzeAll and analyzeDeep                                              *)
(***************************************************************************)
\* a handler call before its first await
NewRequest(endpoint, in) ==
  [pc |-> "received", endpoint |-> endpoint, input |-> in, report |-> NoReport,
   runAllCalls |-> 0, runDeepCalls |-> 0]

\* CACHE_TTL_MS before the controller module is loaded
Unloaded == [loaded |-> FALSE, finite |-> FALSE, ms |-> 0]

NoResponse ==
  [endpoint |-> "", input |-> NoParsedInput, at |-> 0, status |-> 0, payload |-> NoPayload,
   error |-> NoError, runAllCalls |-> 0, runDeepCalls |-> 0]

\* res.status(200).json(payload)
JsonResponse(request, at, payload) ==
  [endpoint |-> request.endpoint, input |-> request.input, at |-> at, status |-> 200,
   payload |-> payload, error |-> NoError,
   runAllCalls |-> request.runAllCalls, runDeepCalls |-> request.runDeepCalls]

\* next(error): the handler itself sends nothing
NextError(request, at, err) ==
  [endpoint |-> request.endpoint, input |-> request.input, at |-> at, status |-> 0,
   payload |-> NoPayload, error |-> err,
   runAllCalls |-> request.runAllCalls, runDeepCalls |-> request.runDeepCalls]

\* what runAllAudits and runDeepAudit reject with when they do
ServiceErrors == {[name |-> "Error", message |-> "upstream failure"]}

\* the identity of a request for the cache: its endpoint and its parsed input
RequestId(request) == <<request.endpoint, request.input>>

\* the handler calls in flight, one more and one fewer
InFlight == BagToSet(requests)

\* every shape a suspended handler call can have
Awaiting ==
  { [pc |-> p, endpoint |-> e, input |-> parseAllAuditsInput(body).value, report |-> rep,
     runAllCalls |-> 1, runDeepCalls |-> IF p = "deep" THEN 1 ELSE 0] :
      p \in {"baseline", "deep"}, e \in Endpoints, body \in CacheBodies,
      rep \in {NoReport} \cup {Report(n, s) : n \in 1..Len(DEFAULT_AUDIT_TYPES), s \in Summaries} }

Suspended(request) == requests (+) SetToBag({request})

Resumed(request) == requests (-) SetToBag({request})

ControllerRestInit ==
  /\ requests = EmptyBag
  /\ cache = <<>>
  /\ now = 0
  /\ cacheTtl = Unloaded
  /\ lastResponse = NoResponse
  /\ lastComputed = <<>>

\* the module is loaded: CACHE_TTL_MS = Number(process.env.AUDIT_CACHE_TTL_MS ?? "60000")
LoadController(ttl) ==
  /\ ~cacheTtl.loaded
  /\ cacheTtl' = [loaded |-> TRUE, finite |-> ttl.finite, ms |-> ttl.ms]
  /\ UNCHANGED <<requests, cache, now, lastResponse, lastComputed>>
  /\ UNCHANGED <<runnerVars, summaryVars, streamVars, utilVars>>

\* the handler stores the payload it computed and answers 200 with it
StoreAndRespond(request, payload) ==
  /\ cache' = setCachedResponse(cache, cacheTtl, now,
                                buildCacheKey(request.endpoint, request.input), payload)
  /\ lastResponse' = JsonResponse(request, now, payload)
  /\ lastComputed' = MapSet(lastComputed, RequestId(request), [at |-> now, payload |-> payload])

\* analyzeAll / analyzeDeep up to their first await: parse the body, look the
\* key up, answer from the cache or call runAllAudits
ReceiveRequest(endpoint, body) ==
  LET parsed == parseAllAuditsInput(body)
      request == NewRequest(endpoint, parsed.value)
      looked == getCachedResponse(cache, cacheTtl, now, buildCacheKey(endpoint, parsed.value))
  IN
  /\ cacheTtl.loaded
  /\ BagCardinality(requests) < MaxRequests
  /\ IF ~parsed.ok
     THEN /\ lastResponse' = NextError(request, now, parsed.error)
          /\ UNCHANGED <<requests, cache, lastComputed>>
     ELSE IF looked.hit
     THEN /\ lastResponse' = JsonResponse(request, now, looked.payload)
          /\ cache' = looked.cache
          /\ UNCHANGED <<requests, lastComputed>>
     ELSE /\ requests' = Suspended([request EXCEPT !.pc = "baseline", !.runAllCalls = 1])
          /\ cache' = looked.cache
          /\ UNCHANGED <<lastResponse, lastComputed>>
  /\ UNCHANGED <<now, cacheTtl>>
  /\ UNCHANGED <<runnerVars, summaryVars, streamVars, utilVars>>

\* runAllAudits resolves: /all stores and answers; /deep decides whether to
\* call runDeepAudit
RunAllAuditsResolves(awaiting, s) ==
  LET request == [awaiting EXCEPT !.report = Report(AuditCount(awaiting.input), s)] IN
  /\ awaiting \in InFlight
  /\ awaiting.pc = "baseline"
  /\ IF request.endpoint = "all"
     THEN /\ StoreAndRespond(request, Payload(request.report, FALSE, NoAnalysis))
          /\ requests' = Resumed(awaiting)
     ELSE IF shouldSkipDeepAnalysis(request.report)
     THEN /\ StoreAndRespond(request,
                             Payload(request.report, TRUE, createNominalDeepAnalysis))
          /\ requests' = Resumed(awaiting)
     ELSE /\ requests' = Resumed(awaiting)
                           (+) SetToBag({[request EXCEPT !.pc = "deep", !.runDeepCalls = 1]})
          /\ UNCHANGED <<cache, lastResponse, lastComputed>>
  /\ UNCHANGED <<now, cacheTtl>>
  /\ UNCHANGED <<runnerVars, summaryVars, streamVars, utilVars>>

\* runDeepAudit resolves: the merged payload is stored and answered
RunDeepAuditResolves(awaiting, analysis) ==
  /\ awaiting \in InFlight
  /\ awaiting.pc = "deep"
  /\ StoreAndRespond(awaiting, Payload(awaiting.report, TRUE, analysis))
  /\ requests' = Resumed(awaiting)
  /\ UNCHANGED <<now, cacheTtl>>
  /\ UNCHANGED <<runnerVars, summaryVars, streamVars, utilVars>>

\* a catch block that stores the failure under the key before next(error)
ServiceRejectsAndStores(awaiting, err) ==
  /\ awaiting \in InFlight
  /\ lastResponse' = NextError(awaiting, now, err)
  /\ requests' = Resumed(awaiting)
  /\ cache' = setCachedResponse(cache, cacheTtl, now,
                                buildCacheKey(awaiting.endpoint, awaiting.input), NoPayload)
  /\ UNCHANGED <<now, cacheTtl, lastComputed>>
  /\ UNCHANGED <<runnerVars, summaryVars, streamVars, utilVars>>

\* runAllAudits or runDeepAudit rejects: catch (error) { next(error) }
ServiceRejects(awaiting, err) ==
  /\ awaiting \in InFlight
  /\ lastResponse' = NextError(awaiting, now, err)
  /\ requests' = Resumed(awaiting)
  /\ UNCHANGED <<cache, now, cacheTtl, lastComputed>>
  /\ UNCHANGED <<runnerVars, summaryVars, streamVars, utilVars>>

\* Date.now() moves on
Tick ==
  /\ now < MaxTicks * ClockStep
  /\ now' = now + ClockStep
  /\ UNCHANGED <<requests, cache, cacheTtl, lastResponse, lastComputed>>
  /\ UNCHANGED <<runnerVars, summaryVars, streamVars, utilVars>>

(***************************************************************************)
(* analyzeDeepProgress: the staged progress stream of POST /deep/progress  *)
(***************************************************************************)
DEEP_ANALYSIS_PROGRESS_INTERVAL_MS == 4000

\* STATUS_TEMPLATES[stage].status
TemplateStatus(stage) ==
  CASE stage = "request_received" -> "queued"
    [] stage \in {"deep_analysis_skipped", "response_dispatched"} -> "completed"
    [] stage = "request_failed" -> "failed"
    [] OTHER -> "running"

\* STATUS_TEMPLATES[stage].progress
TemplateProgress(stage) ==
  CASE stage = "request_received" -> 0
    [] stage = "baseline_audit_started" -> 10
    [] stage = "baseline_audit_progress" -> 10
    [] stage = "audit_report" -> 65
    [] stage = "baseline_audit_completed" -> 70
    [] stage = "deep_analysis_started" -> 80
    [] stage = "deep_analysis_progress" -> 85
    [] stage = "deep_analysis_skipped" -> 90
    [] stage = "deep_analysis_completed" -> 95
    [] stage = "response_preparing" -> 98
    [] stage = "response_dispatched" -> 100
    [] stage = "request_failed" -> 100

\* the stage-specific fields that matter to the payload: an own progress or none
NoFields == [hasProgress |-> FALSE, progress |-> 0]

WithProgress(p) == [hasProgress |-> TRUE, progress |-> p]

\* buildStatusPayload: the template of the stage, overridden by the fields
buildStatusPayload(stage, fields) ==
  [stage |-> stage, status |-> TemplateStatus(stage),
   progress |-> IF fields.hasProgress THEN fields.progress ELSE TemplateProgress(stage)]

\* one call of emitProgress, emitCompleted or emitError: the SSE event name and
\* the status payload handed to sendSseEvent
Emission(eventName, stage, fields) ==
  [event |-> eventName, payload |-> buildStatusPayload(stage, fields)]

emitProgress(stage, fields) == Emission("progress", stage, fields)

emitCompleted == Emission("completed", "response_dispatched", NoFields)

emitError(latest) == Emission("error", "request_failed", WithProgress(latest))

\* a sendSseEvent that writes whatever connectionClosed is
sendSseEventAlways(log, emission, closed) ==
  Append(log, [event |-> emission.event, stage |-> emission.payload.stage,
               status |-> emission.payload.status,
               progress |-> emission.payload.progress, written |-> TRUE])

\* sendSseEvent: res.write unless the connection is closed; the log keeps the
\* emissions that were not written too, marked as such
sendSseEvent(log, emission, closed) ==
  Append(log, [event |-> emission.event, stage |-> emission.payload.stage,
               status |-> emission.payload.status,
               progress |-> emission.payload.progress, written |-> ~closed])

RECURSIVE SendAll(_, _, _)
SendAll(log, emissions, closed) ==
  IF emissions = <<>> THEN log
  ELSE SendAll(sendSseEvent(log, Head(emissions), closed), Tail(emissions), closed)

\* latestProgress after a run of emitProgress / emitCompleted calls
LatestOf(latest, emissions) ==
  IF emissions = <<>> THEN latest ELSE emissions[Len(emissions)].payload.progress

\* Math.round(a / b) for a >= 0, b > 0
RoundDiv(a, b) == (2 * a + b) \div (2 * b)

\* Math.ceil(a / b) for a >= 0, b > 0
CeilDiv(a, b) == (a + b - 1) \div b

Min(a, b) == IF a <= b THEN a ELSE b

Max(a, b) == IF a >= b THEN a ELSE b

\* 12 + Math.round(Math.min(1, started / Math.max(1, total)) * 18)
StartedProgress(started, total) ==
  12 + RoundDiv(Min(started, Max(1, total)) * 18, Max(1, total))

\* 30 + Math.round(Math.min(1, completed / Math.max(1, total)) * 40)
CompletedProgress(completed, total) ==
  30 + RoundDiv(Min(completed, Max(1, total)) * 40, Max(1, total))

\* the heartbeat estimate without its Math.min(94, ...) cap
HeartbeatProgressUncapped(elapsed) == 80 + CeilDiv(elapsed, 4)

\* Math.min(94, 80 + Math.ceil(elapsedSeconds / 4))
HeartbeatProgress(elapsed) == Min(94, 80 + CeilDiv(elapsed, 4))

\* baselineTotalCount: input.types.length, or 3 without a non-empty types array
BaselineTotalCount(in) == IF in.hasTypes /\ Len(in.types) > 0 THEN Len(in.types) ELSE 3

\* the onAuditEvent calls of the fan-out: one audit_started per auditor
StartedEmissions(n, total) ==
  [k \in 1..n |-> emitProgress("baseline_audit_progress", WithProgress(StartedProgress(k, total)))]

\* for (const audit of standardReport.audits ?? []) emitProgress("audit_report", ...)
ReportEmissions(rep) ==
  [k \in 1..rep.audits |-> emitProgress("audit_report", NoFields)]

\* the closing stages of a request that got its analysis
ClosingEmissions ==
  << emitProgress("deep_analysis_completed", WithProgress(95)),
     emitProgress("response_preparing", WithProgress(98)),
     emitCompleted >>

\* the connection events of the request and the response
ConnectionEvents == {"req_close", "req_aborted", "res_close"}

ControllerStreamInit ==
  /\ spc = "idle"
  /\ connectionClosed = FALSE
  /\ fired = {}
  /\ baselineStartedCount = 0
  /\ baselineCompletedCount = 0
  /\ baselineTotalCount = 0
  /\ latestProgress = 0
  /\ deepAnalysisInterval = "null"
  /\ liveTimers = 0
  /\ elapsedSeconds = 0
  /\ sse = <<>>
  /\ resEnded = FALSE
  /\ nextError = NoError
  /\ standardReport = NoReport
  /\ responsePayload = NoPayload
  /\ streamDeepCalls = 0

ControllerInit == ControllerRestInit /\ ControllerStreamInit

\* a stopDeepAnalysisHeartbeat that forgets the timer without clearing it
stopDeepAnalysisHeartbeatNoClear(interval, timers) ==
  [interval |-> "null", timers |-> timers]

\* stopDeepAnalysisHeartbeat: clearInterval on the live timer, if there is one
stopDeepAnalysisHeartbeat(interval, timers) ==
  IF interval = "null" THEN [interval |-> "null", timers |-> timers]
  ELSE [interval |-> "null", timers |-> timers - 1]

\* the catch block of analyzeDeepProgress, entered with the emissions the try
\* block made before it threw: the heartbeat is stopped; an open connection
\* gets the error event and is ended, a closed one hands the error to next
CatchStreamError(before, err) ==
  LET stopped == stopDeepAnalysisHeartbeat(deepAnalysisInterval, liveTimers)
      latest == LatestOf(latestProgress, before)
  IN
  /\ deepAnalysisInterval' = stopped.interval
  /\ liveTimers' = stopped.timers
  /\ latestProgress' = latest
  /\ spc' = "ended"
  /\ IF ~connectionClosed
     THEN /\ sse' = SendAll(sse, before \o <<emitError(latest)>>, connectionClosed)
          /\ resEnded' = TRUE
          /\ UNCHANGED nextError
     ELSE /\ sse' = SendAll(sse, before, connectionClosed)
          /\ nextError' = err
          /\ UNCHANGED resEnded

\* analyzeDeepProgress up to its first await: request_received, the parsed
\* input, baseline_audit_started, and the call of runAllAudits, whose fan-out
\* reports every auditor started before it returns its promise
OpenStream(body) ==
  LET parsed == parseAllAuditsInput(body)
      total == BaselineTotalCount(parsed.value)
      n == AuditCount(parsed.value)
      received == <<emitProgress("request_received", NoFields)>>
      emissions == received \o <<emitProgress("baseline_audit_started", NoFields)>>
                     \o StartedEmissions(n, total)
  IN
  /\ spc = "idle"
  /\ IF ~parsed.ok
     THEN /\ CatchStreamError(received, parsed.error)
          /\ UNCHANGED <<baselineStartedCount, baselineTotalCount>>
     ELSE /\ spc' = "baseline"
          /\ baselineTotalCount' = total
          /\ baselineStartedCount' = n
          /\ sse' = SendAll(sse, emissions, connectionClosed)
          /\ latestProgress' = LatestOf(latestProgress, emissions)
          /\ UNCHANGED <<deepAnalysisInterval, liveTimers, resEnded, nextError>>
  /\ UNCHANGED <<connectionClosed, fired, baselineCompletedCount, elapsedSeconds,
                 standardReport, responsePayload, streamDeepCalls>>
  /\ UNCHANGED <<runnerVars, summaryVars, restVars, utilVars>>

\* onAuditEvent with audit_completed or audit_failed: one auditor has settled
BaselineAuditSettles ==
  LET emissions == <<emitProgress("baseline_audit_progress",
                       WithProgress(CompletedProgress(baselineCompletedCount + 1,
                                                      baselineTotalCount)))>>
  IN
  /\ spc = "baseline"
  /\ baselineCompletedCount < baselineStartedCount
  /\ baselineCompletedCount' = baselineCompletedCount + 1
  /\ sse' = SendAll(sse, emissions, connectionClosed)
  /\ latestProgress' = LatestOf(latestProgress, emissions)
  /\ UNCHANGED <<spc, connectionClosed, fired, baselineStartedCount, baselineTotalCount,
                 deepAnalysisInterval, liveTimers, elapsedSeconds, resEnded, nextError,
                 standardReport, responsePayload, streamDeepCalls>>
  /\ UNCHANGED <<runnerVars, summaryVars, restVars, utilVars>>

\* runAllAudits resolves: the audit reports, baseline_audit_completed, and
\* either the skipped analysis with the closing stages, or deep_analysis_started,
\* the heartbeat timer and the call of runDeepAudit
StreamBaselineResolves(s) ==
  LET rep == Report(baselineStartedCount, s)
      baseline == ReportEmissions(rep)
                    \o <<emitProgress("baseline_audit_completed", WithProgress(70))>>
      skipping == baseline \o <<emitProgress("deep_analysis_skipped", WithProgress(90))>>
                    \o ClosingEmissions
      starting == baseline \o <<emitProgress("deep_analysis_started", WithProgress(80))>>
  IN
  /\ spc = "baseline"
  /\ baselineCompletedCount = baselineStartedCount
  /\ standardReport' = rep
  /\ IF shouldSkipDeepAnalysis(rep)
     THEN /\ spc' = "ended"
          /\ sse' = SendAll(sse, skipping, connectionClosed)
          /\ latestProgress' = LatestOf(latestProgress, skipping)
          /\ responsePayload' = Payload(rep, TRUE, createNominalDeepAnalysis)
          /\ resEnded' = ~connectionClosed
          /\ UNCHANGED <<deepAnalysisInterval, liveTimers, elapsedSeconds, streamDeepCalls>>
     ELSE /\ spc' = "deep"
          /\ sse' = SendAll(sse, starting, connectionClosed)
          /\ latestProgress' = LatestOf(latestProgress, starting)
          /\ deepAnalysisInterval' = "interval"
          /\ liveTimers' = liveTimers + 1
          /\ elapsedSeconds' = 0
          /\ streamDeepCalls' = streamDeepCalls + 1
          /\ UNCHANGED <<responsePayload, resEnded>>
  /\ UNCHANGED <<connectionClosed, fired, baselineStartedCount, baselineCompletedCount,
                 baselineTotalCount, nextError>>
  /\ UNCHANGED <<runnerVars, summaryVars, restVars, utilVars>>

\* runAllAudits rejects, which it does before any auditor has settled
StreamBaselineRejects(err) ==
  /\ spc = "baseline"
  /\ baselineCompletedCount = 0
  /\ CatchStreamError(<<>>, err)
  /\ UNCHANGED <<connectionClosed, fired, baselineStartedCount, baselineCompletedCount,
                 baselineTotalCount, elapsedSeconds, standardReport, responsePayload,
                 streamDeepCalls>>
  /\ UNCHANGED <<runnerVars, summaryVars, restVars, utilVars>>

\* the interval timer fires: deep_analysis_progress with the estimate
HeartbeatFires ==
  LET elapsed == elapsedSeconds + DEEP_ANALYSIS_PROGRESS_INTERVAL_MS \div 1000
      emissions == <<emitProgress("deep_analysis_progress",
                                  WithProgress(HeartbeatProgress(elapsed)))>>
  IN
  /\ liveTimers > 0
  /\ elapsedSeconds < MaxHeartbeats * (DEEP_ANALYSIS_PROGRESS_INTERVAL_MS \div 1000)
  /\ elapsedSeconds' = elapsed
  /\ sse' = SendAll(sse, emissions, connectionClosed)
  /\ latestProgress' = LatestOf(latestProgress, emissions)
  /\ UNCHANGED <<spc, connectionClosed, fired, baselineStartedCount, baselineCompletedCount,
                 baselineTotalCount, deepAnalysisInterval, liveTimers, resEnded, nextError,
                 standardReport, responsePayload, streamDeepCalls>>
  /\ UNCHANGED <<runnerVars, summaryVars, restVars, utilVars>>

\* runDeepAudit resolves: finally stops the heartbeat, then the closing stages
StreamDeepResolves(analysis) ==
  LET stopped == stopDeepAnalysisHeartbeat(deepAnalysisInterval, liveTimers) IN
  /\ spc = "deep"
  /\ spc' = "ended"
  /\ deepAnalysisInterval' = stopped.interval
  /\ liveTimers' = stopped.timers
  /\ sse' = SendAll(sse, ClosingEmissions, connectionClosed)
  /\ latestProgress' = LatestOf(latestProgress, ClosingEmissions)
  /\ responsePayload' = Payload(standardReport, TRUE, analysis)
  /\ resEnded' = ~connectionClosed
  /\ UNCHANGED <<connectionClosed, fired, baselineStartedCount, baselineCompletedCount,
                 baselineTotalCount, elapsedSeconds, nextError, standardReport,
                 streamDeepCalls>>
  /\ UNCHANGED <<runnerVars, summaryVars, restVars, utilVars>>

\* runDeepAudit rejects: finally stops the heartbeat, then the catch block
StreamDeepRejects(err) ==
  /\ spc = "deep"
  /\ CatchStreamError(<<>>, err)
  /\ UNCHANGED <<connectionClosed, fired, baselineStartedCount, baselineCompletedCount,
                 baselineTotalCount, elapsedSeconds, standardReport, responsePayload,
                 streamDeepCalls>>
  /\ UNCHANGED <<runnerVars, summaryVars, restVars, utilVars>>

\* req emits 'close' or 'aborted', or res emits 'close', while the handler
\* awaits: only the handlers of 'aborted' and of res 'close' set connectionClosed
ConnectionEvent(kind) ==
  /\ spc \in {"baseline", "deep"}
  /\ kind \notin fired
  /\ fired' = fired \cup {kind}
  /\ connectionClosed' = (connectionClosed \/ kind \in {"req_aborted", "res_close"})
  /\ UNCHANGED <<spc, baselineStartedCount, baselineCompletedCount, baselineTotalCount,
                 latestProgress, deepAnalysisInterval, liveTimers, elapsedSeconds, sse,
                 resEnded, nextError, standardReport, responsePayload, streamDeepCalls>>
  /\ UNCHANGED <<runnerVars, summaryVars, restVars, utilVars>>

(***************************************************************************)
(* fetchWithTimeout (core/utils/http.js)                                   *)
(*                                                                         *)
(* One call on the event loop.  The synchronous prefix of the call (the    *)
(* timeoutMs test, setTimeout, the call of the fetcher) is one step; the   *)
(* settlement of the fetcher's promise together with the catch/finally     *)
(* continuation it schedules is one step; the timer callback is one step.  *)
(* The fetcher is fetch-compatible: it rejects with an AbortError when,    *)
(* and only when, the signal it was handed is aborted.  A timer that is    *)
(* due runs before the clock moves on.                                     *)
(***************************************************************************)
\* the timeoutMs values a call is given: none, that of the test, a longer one
TimeoutSettings == {0, 5, 20}

\* the clock of the call advances in steps of this many milliseconds
FetchClockStep == 5

Settlement(kind, name, value) == [kind |-> kind, name |-> name, value |-> value]

NoSettlement == Settlement("pending", "", "")

\* what the fetcher can settle with by itself: a response, ok or not, or a
\* network error
FetcherSettlements ==
  { Settlement("resolved", "", "200 ok"),
    Settlement("resolved", "", "404 not ok"),
    Settlement("rejected", "TypeError", "fetch failed") }

\* the rejection of a fetcher whose signal is aborted
AbortError == Settlement("rejected", "AbortError", "aborted")

\* new TimeoutError(`Request timed out after ${timeoutMs}ms`)
TimeoutError(timeoutMs) ==
  Settlement("rejected", "TimeoutError",
             "Request timed out after " \o ToString(timeoutMs) \o "ms")

\* a call that arms its timer whatever timeoutMs is
ArmsTimerAlways(timeoutMs) == TRUE

\* the negation of the early return: !timeoutMs || timeoutMs <= 0
ArmsTimer(timeoutMs) == ~(timeoutMs = 0 \/ timeoutMs <= 0)

\* the catch block: an AbortError becomes a TimeoutError, any other error is
\* rethrown as it is
CatchFetchError(err, timeoutMs) ==
  IF err.name = "AbortError" THEN TimeoutError(timeoutMs) ELSE err

\* how the call settles for a settlement of the fetcher
SettleCall(settlement, timeoutMs, armed) ==
  IF settlement.kind = "rejected" /\ armed
  THEN CatchFetchError(settlement, timeoutMs)
  ELSE settlement

\* clearTimeout(timeout) in the finally block
clearTimeout(timer) == IF timer = "armed" THEN "cleared" ELSE timer

FetchInit ==
  /\ ftPc = "idle"
  /\ ftTimeoutMs = 0
  /\ ftTimer = "none"
  /\ ftAborted = FALSE
  /\ ftElapsed = 0
  /\ ftSettledAt = 0
  /\ ftFetcher = NoSettlement
  /\ ftOutcome = NoSettlement

\* fetchWithTimeout(fetcher, url, options, timeoutMs) up to its first await
CallFetchWithTimeout(timeoutMs) ==
  /\ ftPc = "idle"
  /\ ftPc' = "pending"
  /\ ftTimeoutMs' = timeoutMs
  /\ ftTimer' = IF ArmsTimer(timeoutMs) THEN "armed" ELSE "none"
  /\ UNCHANGED <<ftAborted, ftElapsed, ftSettledAt, ftFetcher, ftOutcome>>
  /\ UNCHANGED <<runnerVars, summaryVars, controllerVars, linkVars>>

\* the timer is due: the delay of setTimeout has passed and it is not cleared
TimerDue == ftTimer = "armed" /\ ftElapsed >= ftTimeoutMs

\* time passes; a due timer and the rejection of an aborted fetcher come first
FetchTick ==
  /\ ftPc # "idle"
  /\ ~TimerDue
  /\ ~(ftPc = "pending" /\ ftAborted)
  /\ ftElapsed < MaxFetchTicks * FetchClockStep
  /\ ftElapsed' = ftElapsed + FetchClockStep
  /\ UNCHANGED <<ftPc, ftTimeoutMs, ftTimer, ftAborted, ftSettledAt, ftFetcher, ftOutcome>>
  /\ UNCHANGED <<runnerVars, summaryVars, controllerVars, linkVars>>

\* the fetcher settles by itself; the call returns or rethrows and the
\* finally block clears the timer
FetcherSettles(settlement) ==
  /\ ftPc = "pending"
  /\ ~ftAborted
  /\ ftPc' = "settled"
  /\ ftFetcher' = settlement
  /\ ftOutcome' = SettleCall(settlement, ftTimeoutMs, ftTimer # "none")
  /\ ftTimer' = clearTimeout(ftTimer)
  /\ ftSettledAt' = ftElapsed
  /\ UNCHANGED <<ftTimeoutMs, ftAborted, ftElapsed>>
  /\ UNCHANGED <<runnerVars, summaryVars, controllerVars, linkVars>>

\* the setTimeout callback: controller.abort()
TimerFires ==
  /\ TimerDue
  /\ ftTimer' = "fired"
  /\ ftAborted' = TRUE
  /\ UNCHANGED <<ftPc, ftTimeoutMs, ftElapsed, ftSettledAt, ftFetcher, ftOutcome>>
  /\ UNCHANGED <<runnerVars, summaryVars, controllerVars, linkVars>>

\* the fetcher rejects with an AbortError because its signal was aborted
FetcherAborted ==
  /\ ftPc = "pending"
  /\ ftAborted
  /\ ftPc' = "settled"
  /\ ftFetcher' = AbortError
  /\ ftOutcome' = SettleCall(AbortError, ftTimeoutMs, ftTimer # "none")
  /\ ftTimer' = clearTimeout(ftTimer)
  /\ ftSettledAt' = ftElapsed
  /\ UNCHANGED <<ftTimeoutMs, ftAborted, ftElapsed>>
  /\ UNCHANGED <<runnerVars, summaryVars, controllerVars, linkVars>>

(***************************************************************************)
(* analyzeLinkHealth and mapWithConcurrency (core/lib/seo/links.js)        *)
(*                                                                         *)
(* The call of mapWithConcurrency up to its await is one step: every       *)
(* worker runs to its first await, one after the other.  The settlement of *)
(* one iterator call with the rest of that worker's loop up to its next    *)
(* await or its return is one step.  The continuation after Promise.all,   *)
(* with the loop of analyzeLinkHealth over the results, is one step.       *)
(* checkLinkHealth catches every error of its requests, so the iterator    *)
(* always resolves.                                                        *)
(***************************************************************************)
\* the limit analyzeLinkHealth passes to mapWithConcurrency
LINK_CHECK_CONCURRENCY == 5

\* the concurrency arguments mapWithConcurrency is tried with
Concurrencies == {1, 2, LINK_CHECK_CONCURRENCY}

\* the link of index i (from 0) of the page, as in the test
LinkUrl(i) == "https://example.com/link-" \o ToString(i)

\* buildLinkCandidates for a page with n internal links
LinkCandidates(n) ==
  [i \in 1..n |-> [url |-> LinkUrl(i - 1), linkType |-> "internal"]]

\* how one check can end: a response, or an error of the request
LinkOutcomes == {"200", "NETWORK_ERROR"}

\* createHealthyLinkResult / createErroredLinkResult for the candidate
LinkResult(candidate, outcome) ==
  [url |-> candidate.url,
   linkType |-> candidate.linkType,
   statusCode |-> outcome,
   isBroken |-> (outcome = "NETWORK_ERROR")]

\* a slot of new Array(items.length) nothing was assigned to
EmptySlot == [url |-> "", linkType |-> "", statusCode |-> "empty", isBroken |-> FALSE]

NoLinkHealth == [returned |-> FALSE, totalChecked |-> 0, brokenCount |-> 0, deadLinks |-> <<>>]

\* what a worker is doing: awaiting iterator(items[currentIndex]) or returned
Awaits(currentIndex) == [state |-> "awaiting", currentIndex |-> currentIndex]

Returned == [state |-> "returned", currentIndex |-> 0]

\* as many workers as there are items, whatever the limit
Uncapped(limit, length) == length

\* Math.max(1, Math.min(concurrency, items.length))
cappedConcurrency(limit, length) == Max(1, Min(limit, length))

\* one pass of a worker's loop that increments nextIndex before it reads it
workerIncrementFirst(st, w) ==
  LET currentIndex == st.nextIndex + 1
  IN IF currentIndex >= Len(st.items)
     THEN [st EXCEPT !.nextIndex = @ + 1, !.workers[w] = Returned]
     ELSE [st EXCEPT !.nextIndex = @ + 1,
                     !.workers[w] = Awaits(currentIndex),
                     !.iteratorCalls[currentIndex + 1] = @ + 1]

\* one pass of the loop of worker w up to its await or its return:
\* currentIndex = nextIndex; nextIndex += 1; return when past the end,
\* otherwise call the iterator for items[currentIndex]
worker(st, w) ==
  LET currentIndex == st.nextIndex
  IN IF currentIndex >= Len(st.items)
     THEN [st EXCEPT !.nextIndex = @ + 1, !.workers[w] = Returned]
     ELSE [st EXCEPT !.nextIndex = @ + 1,
                     !.workers[w] = Awaits(currentIndex),
                     !.iteratorCalls[currentIndex + 1] = @ + 1]

\* Array.from({ length: cappedConcurrency }, () => worker()): the workers
\* start one after the other
RECURSIVE StartWorkers(_, _)
StartWorkers(st, k) ==
  IF k = 0 THEN st ELSE worker(StartWorkers(st, k - 1), k)

\* the iterator calls in flight: the workers that are awaiting
AwaitingWorkers(ws) == {w \in DOMAIN ws : ws[w].state = "awaiting"}

\* the loop of analyzeLinkHealth over the results
RECURSIVE DeadLinks(_)
DeadLinks(rs) ==
  IF rs = <<>> THEN <<>>
  ELSE LET rest == DeadLinks(Tail(rs))
       IN IF Head(rs).isBroken THEN <<Head(rs).url>> \o rest ELSE rest

LinkInit ==
  /\ mapPc = "idle"
  /\ items = <<>>
  /\ concurrency = 0
  /\ nextIndex = 0
  /\ results = <<>>
  /\ workers = <<>>
  /\ iteratorCalls = <<>>
  /\ inFlight = 0
  /\ maxInFlight = 0
  /\ linkHealth = NoLinkHealth

\* mapWithConcurrency(candidates, limit, iterator) up to its await; with no
\* candidates analyzeLinkHealth returns before calling it
CallMapWithConcurrency(n, limit) ==
  /\ mapPc = "idle"
  /\ items' = LinkCandidates(n)
  /\ concurrency' = limit
  /\ IF n = 0
     THEN /\ mapPc' = "returned"
          /\ linkHealth' = [NoLinkHealth EXCEPT !.returned = TRUE]
          /\ UNCHANGED <<nextIndex, results, workers, iteratorCalls, inFlight, maxInFlight>>
     ELSE LET capped == cappedConcurrency(limit, n)
              st == StartWorkers([items |-> LinkCandidates(n),
                                  nextIndex |-> 0,
                                  workers |-> [w \in 1..capped |-> Returned],
                                  iteratorCalls |-> [i \in 1..n |-> 0]],
                                 capped)
          IN /\ mapPc' = "running"
             /\ nextIndex' = st.nextIndex
             /\ workers' = st.workers
             /\ iteratorCalls' = st.iteratorCalls
             /\ results' = [i \in 1..n |-> EmptySlot]
             /\ inFlight' = Cardinality(AwaitingWorkers(st.workers))
             /\ maxInFlight' = Cardinality(AwaitingWorkers(st.workers))
             /\ UNCHANGED linkHealth
  /\ UNCHANGED <<runnerVars, summaryVars, controllerVars, fetchVars>>

\* the iterator call worker w awaits resolves: the worker stores the result
\* under its currentIndex and goes round its loop
IteratorSettles(w, outcome) ==
  /\ mapPc = "running"
  /\ w \in AwaitingWorkers(workers)
  /\ LET currentIndex == workers[w].currentIndex
         st == worker([items |-> items, nextIndex |-> nextIndex,
                       workers |-> workers, iteratorCalls |-> iteratorCalls], w)
     IN /\ results' = [results EXCEPT ![currentIndex + 1] =
                         LinkResult(items[currentIndex + 1], outcome)]
        /\ nextIndex' = st.nextIndex
        /\ workers' = st.workers
        /\ iteratorCalls' = st.iteratorCalls
        /\ inFlight' = Cardinality(AwaitingWorkers(st.workers))
        /\ maxInFlight' = Max(maxInFlight, Cardinality(AwaitingWorkers(st.workers)))
  /\ UNCHANGED <<mapPc, items, concurrency, linkHealth>>
  /\ UNCHANGED <<runnerVars, summaryVars, controllerVars, fetchVars>>

\* every worker has returned: Promise.all resolves, mapWithConcurrency
\* returns results and analyzeLinkHealth counts them
MapReturns ==
  /\ mapPc = "running"
  /\ AwaitingWorkers(workers) = {}
  /\ mapPc' = "returned"
  /\ linkHealth' = [returned |-> TRUE,
                    totalChecked |-> Len(items),
                    brokenCount |-> Len(DeadLinks(results)),
                    deadLinks |-> DeadLinks(results)]
  /\ UNCHANGED <<items, concurrency, nextIndex, results, workers, iteratorCalls,
                 inFlight, maxInFlight>>
  /\ UNCHANGED <<runnerVars, summaryVars, controllerVars, fetchVars>>

(***************************************************************************)
(* State machine                                                           *)
(***************************************************************************)
RunnerInit ==
  /\ registry = <<>>
  /\ regError = ""
  /\ pc = "idle"
  /\ input = NoInput
  /\ options = [onAuditEvent |-> "absent"]
  /\ url = ""
  /\ types = <<>>
  /\ slots = <<>>
  /\ events = <<>>
  /\ report = <<>>
  /\ error = NoError

SummaryInit ==
  /\ sumAudits = <<>>
  /\ summary = <<>>
  /\ sumPc = "collecting"

UtilInit == FetchInit /\ LinkInit

Init == RunnerInit /\ SummaryInit /\ ControllerInit /\ UtilInit

\* AuditRegistry.register(auditor); regError is the message of the error thrown
Register(auditor) ==
  /\ pc = "idle"
  /\ IF auditor.key = ""
     THEN /\ regError' = "Auditor key is required"
          /\ UNCHANGED registry
     ELSE IF RegistryHas(registry, auditor.key)
     THEN /\ regError' = "Auditor \"" \o auditor.key \o "\" is already registered"
          /\ UNCHANGED registry
     ELSE /\ registry' = Append(registry, auditor)
          /\ regError' = ""
  /\ UNCHANGED <<pc, input, options, url, types, slots, events, report, error>>
  /\ UNCHANGED <<summaryVars, controllerVars, utilVars>>

\* the synchronous part of runAudits(input, registry, options): everything up
\* to the await on Promise.all, or up to the first throw
RunAudits(in, opts) ==
  /\ pc = "idle"
  /\ input' = in
  /\ options' = opts
  /\ regError' = ""
  /\ UNCHANGED <<registry, report>>
  /\ UNCHANGED <<summaryVars, controllerVars, utilVars>>
  /\ LET v == assertValidUrl(in.url) IN
       IF ~v.ok
       THEN /\ pc' = "rejected"
            /\ error' = v.error
            /\ UNCHANGED <<url, types, slots, events>>
       ELSE LET ts == ResolveTypes(in, registry)
                n == LaunchedCount(ts, registry)
                auditorAt(i) == RegistryGet(registry, ts[i])[1]
            IN /\ url' = v.url
               /\ types' = ts
               /\ slots' = [i \in 1..n |->
                              [auditor |-> auditorAt(i), state |-> "pending",
                               outcome |-> Pending, result |-> NoResult, handledAt |-> 0]]
               /\ events' = IF onAuditEvent(opts)
                            THEN [i \in 1..n |-> StartedEvent(auditorAt(i))]
                            ELSE <<>>
               /\ IF FirstUnknown(ts, registry) <= Len(ts)
                  THEN /\ pc' = "rejected"
                       /\ error' = UnknownAuditType(ts[FirstUnknown(ts, registry)])
                  ELSE /\ pc' = "awaiting"
                       /\ UNCHANGED error

\* the promise returned by the i-th auditor.run(input) settles
AuditorSettles(i, outcome) ==
  /\ i \in 1..Len(slots)
  /\ slots[i].state = "pending"
  /\ outcome \in Outcomes(slots[i].auditor)
  /\ slots' = [slots EXCEPT ![i].state = "settled", ![i].outcome = outcome]
  /\ UNCHANGED <<registry, regError, pc, input, options, url, types, events, report, error>>
  /\ UNCHANGED <<summaryVars, controllerVars, utilVars>>

\* the runner's reaction to the i-th settled promise: the .catch of
\* runAuditorSafely, then the .then that emits the completion event.  A
\* rejection that reaches the .then skips its callback, and rejects the
\* promise of Promise.all if that is still pending.
HandleSettled(i) ==
  /\ i \in 1..Len(slots)
  /\ slots[i].state = "settled"
  /\ LET guarded == runAuditorSafely(slots[i].auditor, slots[i].outcome) IN
       IF guarded.kind = "fulfilled"
       THEN /\ slots' = [slots EXCEPT ![i].state = "handled", ![i].result = guarded.value,
                                      ![i].handledAt = HandledCount(slots) + 1]
            /\ events' = IF onAuditEvent(options)
                         THEN Append(events, CompletionEvent(slots[i].auditor, guarded.value))
                         ELSE events
            /\ UNCHANGED <<pc, error>>
       ELSE /\ slots' = [slots EXCEPT ![i].state = "failed",
                                      ![i].handledAt = HandledCount(slots) + 1]
            /\ UNCHANGED events
            /\ IF pc = "awaiting"
               THEN /\ pc' = "rejected"
                    /\ error' = [name |-> "Error", message |-> guarded.error.message]
               ELSE UNCHANGED <<pc, error>>
  /\ UNCHANGED <<registry, regError, input, options, url, types, report>>
  /\ UNCHANGED <<summaryVars, controllerVars, utilVars>>

\* the continuation of runAudits after `await Promise.all(...)`; a TypeError
\* thrown by summarizeLogs rejects the call
Join ==
  /\ pc = "awaiting"
  /\ AllHandled(slots)
  /\ LET audits == JoinedAudits(slots) IN
       IF summarizeLogsThrows(audits)
       THEN /\ pc' = "rejected"
            /\ error' = [name |-> "TypeError", message |-> "audit.logs is not iterable"]
            /\ UNCHANGED report
       ELSE /\ report' = << [url |-> url, audits |-> audits,
                              summary |-> summarizeLogs(audits)] >>
            /\ pc' = "resolved"
            /\ UNCHANGED error
  /\ UNCHANGED <<registry, regError, input, options, url, types, slots, events>>
  /\ UNCHANGED <<summaryVars, controllerVars, utilVars>>

Next ==
  \/ \E a \in Auditors : Register(a)
  \/ \E in \in AuditInputs, k \in SinkKinds : RunAudits(in, [onAuditEvent |-> k])
  \/ \E i \in 1..MaxTypes, o \in UNION { Outcomes(a) : a \in Auditors } : AuditorSettles(i, o)
  \/ \E i \in 1..MaxTypes : HandleSettled(i)
  \/ Join

Spec == Init /\ [][Next]_vars

(***************************************************************************)
(* summarizeLogs on its own, over arbitrary settled results                *)
(***************************************************************************)
\* a settled result with the given details and logs; hasLogs is FALSE for a
\* result without a logs property
SettledResult(auditor, details, hasLogs, logs) ==
  [key |-> auditor.key, name |-> auditor.name, status |-> deriveStatus(logs),
   details |-> details, hasLogs |-> hasLogs, logs |-> logs]

Entry(level, message) == [level |-> level, message |-> message]

\* the settled results summarizeLogs is tried on: scores present, missing,
\* non-numeric and not finite; details missing; logs missing, empty, with
\* one entry and with several findings; and the runner's synthetic failure
SettledResults ==
  LET perf == [key |-> "perf", name |-> "Performance Auditor"]
      seo == [key |-> "seo", name |-> "SEO Auditor"]
  IN { SettledResult(perf, Score(100), TRUE, << Entry("INFO", "ok") >>),
       SettledResult(seo, Score(80), TRUE, << Entry("WARNING", "w1") >>),
       SettledResult(perf, NoScore, TRUE, << Entry("ERROR", "e1") >>),
       SettledResult(seo, Score(85), TRUE,
                     << Entry("WARNING", "w2"), Entry("ERROR", "e2"), Entry("WARNING", "w3") >>),
       SettledResult(perf, StringScore, TRUE,
                     << Entry("ERROR", "e3"), Entry("INFO", "i3"), Entry("ERROR", "e4") >>),
       SettledResult(seo, NaNScore, FALSE, <<>>),
       SettledResult(perf, NoDetails, TRUE, <<>>),
       SettledResult(seo, Score(0), TRUE, << Entry("WARNING", "w4"), Entry("INFO", "i4") >>),
       runAuditorSafely(seo, [kind |-> "rejected", value |-> NoResult,
                              error |-> [hasMessage |-> TRUE, message |-> "404 Not Found"]]).value }

\* one more settled result joins the audits array
AddAudit(audit) ==
  /\ sumPc = "collecting"
  /\ Len(sumAudits) < MaxAudits
  /\ sumAudits' = Append(sumAudits, audit)
  /\ UNCHANGED <<summary, sumPc>>
  /\ UNCHANGED <<runnerVars, controllerVars, utilVars>>

\* summarizeLogs(audits) is called
Summarize ==
  /\ sumPc = "collecting"
  /\ IF summarizeLogsThrows(sumAudits)
     THEN /\ sumPc' = "threw"
          /\ UNCHANGED summary
     ELSE /\ sumPc' = "returned"
          /\ summary' = << summarizeLogs(sumAudits) >>
  /\ UNCHANGED sumAudits
  /\ UNCHANGED <<runnerVars, controllerVars, utilVars>>

SummaryNext ==
  \/ \E a \in SettledResults : AddAudit(a)
  \/ Summarize

SpecSummary == Init /\ [][SummaryNext]_vars

(***************************************************************************)
(* The controller's specifications                                         *)
(***************************************************************************)
\* the baseline reports and analyses drawn for the cached endpoints: a report
\* that needs the deep analysis and one that does not, and one analysis
CacheSummaries == {Summary(FALSE, 89, 0), Summary(FALSE, 90, 0)}

CacheAnalyses ==
  {[agent_status |-> "CRITICAL_OPTIMIZATION_REQUIRED", summary |-> "deep response"]}

\* POST /all and POST /deep, concurrent requests over the shared cache
CacheNext ==
  \/ \E ttl \in TtlSettings : LoadController(ttl)
  \/ \E endpoint \in Endpoints, body \in CacheBodies : ReceiveRequest(endpoint, body)
  \/ \E awaiting \in Awaiting, s \in CacheSummaries : RunAllAuditsResolves(awaiting, s)
  \/ \E awaiting \in Awaiting, analysis \in CacheAnalyses :
       RunDeepAuditResolves(awaiting, analysis)
  \/ \E awaiting \in Awaiting, err \in ServiceErrors : ServiceRejects(awaiting, err)
  \/ Tick

SpecCache == Init /\ [][CacheNext]_vars

\* one POST /deep/progress request
ProgressNext ==
  \/ \E body \in Bodies : OpenStream(body)
  \/ BaselineAuditSettles
  \/ \E s \in Summaries : StreamBaselineResolves(s)
  \/ \E err \in ServiceErrors : StreamBaselineRejects(err)
  \/ HeartbeatFires
  \/ \E analysis \in DeepAnalyses : StreamDeepResolves(analysis)
  \/ \E err \in ServiceErrors : StreamDeepRejects(err)
  \/ \E kind \in ConnectionEvents : ConnectionEvent(kind)

SpecProgress == Init /\ [][ProgressNext]_vars

\* the two endpoints that decide on the deep analysis, one kind at a time: the
\* requests of a behaviour go to POST /deep, or one goes to POST /deep/progress,
\* whose handler shares no state with the others
NoRestRequestYet == requests = EmptyBag /\ lastResponse = NoResponse

DeepNext ==
  \/ \E ttl \in TtlSettings : LoadController(ttl)
  \/ spc = "idle" /\ \E body \in CacheBodies : ReceiveRequest("deep", body)
  \/ \E awaiting \in Awaiting, s \in Summaries : RunAllAuditsResolves(awaiting, s)
  \/ \E awaiting \in Awaiting, analysis \in DeepAnalyses :
       RunDeepAuditResolves(awaiting, analysis)
  \/ \E awaiting \in Awaiting, err \in ServiceErrors : ServiceRejects(awaiting, err)
  \/ NoRestRequestYet /\ ProgressNext

SpecDeep == Init /\ [][DeepNext]_vars

\* one call of fetchWithTimeout, for every timeoutMs, fetcher and timing
FetchNext ==
  \/ \E timeoutMs \in TimeoutSettings : CallFetchWithTimeout(timeoutMs)
  \/ FetchTick
  \/ \E settlement \in FetcherSettlements : FetcherSettles(settlement)
  \/ TimerFires
  \/ FetcherAborted

SpecFetch == Init /\ [][FetchNext]_vars

\* the workers there can be
Workers == 1..LINK_CHECK_CONCURRENCY

\* one call of mapWithConcurrency, for every number of links, the limits
\* tried and every order in which the checks end
LinkNext ==
  \/ \E n \in 0..MaxLinks, limit \in Concurrencies : CallMapWithConcurrency(n, limit)
  \/ \E w \in Workers, outcome \in LinkOutcomes : IteratorSettles(w, outcome)
  \/ MapReturns

SpecLinks == Init /\ [][LinkNext]_vars

(***************************************************************************)
(* Vocabulary of the properties                                            *)
(***************************************************************************)
Started == pc # "idle"

\* a well-formed absolute http/https URL
WellFormedHttpUrl(raw) == raw.scheme \in {"http:", "https:"} /\ raw.host # ""

\* the requested key sequence [k1, ..., kn] of the current call
Requested == IF input.hasTypes THEN input.types ELSE RegistryKeys(registry)

KnownKey(k) == \E r \in 1..Len(registry) : registry[r].key = k

SomeUnknownKey == \E i \in 1..Len(Requested) : ~KnownKey(Requested[i])

\* the call passed URL validation and key validation
Validated == Started /\ WellFormedHttpUrl(input.url) /\ ~SomeUnknownKey

SinkIsFunction == options.onAuditEvent = "function"

\* the synthetic failure result for an auditor whose run() failed with e
SyntheticFailure(auditor, e) ==
  [key |-> auditor.key, name |-> auditor.name, status |-> "FAIL", details |-> NoScore,
   hasLogs |-> TRUE,
   logs |-> << [level |-> "ERROR",
                message |-> IF e.hasMessage THEN e.message ELSE "Unknown auditor error"] >>]

\* what slot i of the report has to hold, given how auditor i settled
ExpectedAudit(i) ==
  IF slots[i].outcome.kind = "fulfilled" THEN slots[i].outcome.value
  ELSE SyntheticFailure(slots[i].auditor, slots[i].outcome.error)

\* the completion event of a handled slot: completions follow the
\* audit_started events in the order in which the slots were handled
CompletionEventOf(i) == events[Len(slots) + slots[i].handledAt]

(***************************************************************************)
(* Properties                                                              *)
(***************************************************************************)
\* C1: a resolved run that requested [k1..kn] returns exactly n audits, and
\* audits[i] is what the auditor registered under ki returned (or the
\* synthetic failure put in its place), whatever the order of settlement.
C1_OrderPreserved ==
  pc = "resolved" =>
    LET audits == report[1].audits IN
      /\ Len(audits) = Len(Requested)
      /\ \A i \in 1..Len(Requested) :
           /\ RegistryGet(registry, Requested[i]) = << slots[i].auditor >>
           /\ audits[i].key = Requested[i]
           /\ slots[i].outcome.kind = "fulfilled" => audits[i] = slots[i].outcome.value
           /\ slots[i].outcome.kind = "rejected" => audits[i].status = "FAIL"

\* C1 witness: two different auditors, the later-requested one handled first
C1_Witness ==
  /\ pc = "resolved"
  /\ Len(Requested) = 2
  /\ Requested[1] # Requested[2]
  /\ slots[2].handledAt = 1
  /\ report[1].audits[1] # report[1].audits[2]

\* C2: when the auditor of a slot rejects with error e, the slot is filled
\* with the synthetic result (that auditor's key and name, FAIL, details {},
\* one ERROR entry carrying e's message), the call does not reject, and the
\* other slots hold what their own auditors returned.
C2_FailureIsolated ==
  \A i \in 1..Len(slots) :
    (Validated /\ slots[i].outcome.kind = "rejected" /\ slots[i].state # "settled") =>
      /\ slots[i].state = "handled"
      /\ pc \in {"awaiting", "resolved"}
      /\ slots[i].result.key = slots[i].auditor.key
      /\ slots[i].result.name = slots[i].auditor.name
      /\ slots[i].result.status = "FAIL"
      /\ slots[i].result.details = NoScore
      /\ Len(slots[i].result.logs) = 1
      /\ slots[i].result.logs[1].level = "ERROR"
      /\ slots[i].outcome.error.hasMessage =>
           slots[i].result.logs[1].message = slots[i].outcome.error.message
      /\ pc = "resolved" =>
           /\ report[1].audits[i] = slots[i].result
           /\ \A j \in 1..Len(slots) :
                slots[j].outcome.kind = "fulfilled" =>
                  report[1].audits[j] = slots[j].outcome.value

\* C2 witness: "404 Not Found" thrown by the first auditor, the second fine
C2_Witness ==
  /\ pc = "resolved"
  /\ Len(slots) = 2
  /\ slots[1].outcome.kind = "rejected"
  /\ slots[1].outcome.error.hasMessage
  /\ slots[2].outcome.kind = "fulfilled"
  /\ report[1].audits[1].logs[1].message = "404 Not Found"

\* C3: the call rejects only for an invalid URL or an unknown key; a
\* validated run absorbs every auditor failure into a FAIL result of that
\* slot, stays pending or resolved, and can resolve once all have settled.
C3_OnlyValidationRejects ==
  /\ pc = "rejected" =>
       \/ ~WellFormedHttpUrl(input.url) /\ error.name = "InvalidUrlError"
       \/ WellFormedHttpUrl(input.url) /\ SomeUnknownKey
            /\ \E i \in 1..Len(Requested) :
                 /\ ~KnownKey(Requested[i])
                 /\ error.message = "Unknown audit type: " \o Requested[i]
  /\ Validated =>
       /\ pc \in {"awaiting", "resolved"}
       /\ \A i \in 1..Len(slots) :
            slots[i].state \in {"pending", "settled", "handled"}
       /\ pc = "awaiting" /\ (\A i \in 1..Len(slots) : slots[i].state = "handled")
            => ENABLED Join
       /\ pc = "resolved" => Len(report) = 1

\* C3 witness: every requested auditor failed, in different ways, and the
\* call resolved with a report
C3_Witness ==
  /\ pc = "resolved"
  /\ Len(slots) = 2
  /\ slots[1].outcome.kind = "rejected" /\ slots[1].outcome.error.hasMessage
  /\ slots[2].outcome.kind = "rejected" /\ ~slots[2].outcome.error.hasMessage
  /\ Len(report) = 1

\* C4: if some requested key is unknown, the call rejects with "Unknown
\* audit type: <key>" naming it, produces no report, and no auditor's run()
\* was invoked, wherever the unknown key stands in the requested sequence.
C4_UnknownKeyRunsNothing ==
  (Started /\ WellFormedHttpUrl(input.url) /\ SomeUnknownKey) =>
    /\ pc = "rejected"
    /\ \E i \in 1..Len(Requested) :
         /\ ~KnownKey(Requested[i])
         /\ error.message = "Unknown audit type: " \o Requested[i]
    /\ report = <<>>
    /\ slots = <<>>

\* C5: a URL that is not a well-formed absolute http/https URL makes the call
\* reject with an InvalidUrlError (not the unknown-key kind of error) before
\* any run() is invoked, any event emitted or any key looked up.
C5_InvalidUrlRejectsFirst ==
  (Started /\ ~WellFormedHttpUrl(input.url)) =>
    /\ pc = "rejected"
    /\ error.name = "InvalidUrlError"
    /\ error.name # UnknownAuditType("unknown").name
    /\ error.message = "Invalid URL: " \o input.url.text
    /\ slots = <<>>
    /\ events = <<>>
    /\ report = <<>>

\* C5 witness: an ftp URL with a registered and an unregistered key requested
\* and a sink supplied
C5_Witness ==
  /\ pc = "rejected"
  /\ input.url.scheme = "ftp:"
  /\ error.name = "InvalidUrlError"
  /\ SinkIsFunction
  /\ \E i \in 1..Len(Requested) : KnownKey(Requested[i])
  /\ SomeUnknownKey

\* C6: in a validated run every requested auditor has been launched, and
\* its audit_started emitted in requested order, before any settlement is
\* processed: a pending auditor does not hold back a later one, and no
\* completion event comes before an audit_started event.
C6_FanOutBeforeSettlement ==
  Validated =>
    /\ Len(slots) = Len(Requested)
    /\ \A i \in 1..Len(slots) : slots[i].auditor.key = Requested[i]
    /\ SinkIsFunction =>
         /\ Len(events) >= Len(Requested)
         /\ \A i \in 1..Len(events) :
              IF i <= Len(Requested)
              THEN events[i].type = "audit_started" /\ events[i].auditKey = Requested[i]
              ELSE events[i].type # "audit_started"

\* C6 witness: the first auditor still blocked while the second, launched
\* after it, has already been handled
C6_Witness ==
  /\ pc = "awaiting"
  /\ SinkIsFunction
  /\ Len(slots) = 2
  /\ slots[1].state = "pending"
  /\ slots[2].state = "handled"

\* C7: the call resolves only once every launched auditor has been handled,
\* it stays pending as long as one has not, it can resume as soon as all
\* have, and a sibling that settles after a failure keeps its own result.
C7_JoinNotRace ==
  /\ pc = "resolved" => \A i \in 1..Len(slots) : slots[i].state = "handled"
  /\ Validated =>
       /\ (\E i \in 1..Len(slots) : slots[i].state # "handled") => pc = "awaiting"
       /\ (\A i \in 1..Len(slots) : slots[i].state = "handled") =>
            pc = "resolved" \/ ENABLED Join
       /\ \A i \in 1..Len(slots) :
            /\ slots[i].state = "pending" =>
                 ENABLED (\E o \in Outcomes(slots[i].auditor) : AuditorSettles(i, o))
            /\ slots[i].state = "handled" => slots[i].result = ExpectedAudit(i)

\* C7 witness: the first auditor failed and was handled first; the second
\* settled afterwards with its own result, and only then the call resolved
C7_Witness ==
  /\ pc = "resolved"
  /\ Len(slots) = 2
  /\ slots[1].outcome.kind = "rejected"
  /\ slots[1].handledAt = 1
  /\ slots[2].outcome.kind = "fulfilled"
  /\ slots[2].handledAt = 2

\* C8: with a sink, each requested auditor gives one audit_started at launch
\* and one completion event after it settles, both with its key and name,
\* the completion event carrying the result placed in the report; started
\* precedes completion, and a finished run has emitted exactly 2n events.
C8_TwoEventsPerAuditor ==
  (Validated /\ SinkIsFunction) =>
    LET n == Len(slots)
        done == {i \in 1..n : slots[i].state = "handled"}
    IN /\ Len(events) = n + Cardinality(done)
       /\ \A i \in 1..n :
            /\ events[i].type = "audit_started"
            /\ events[i].auditKey = slots[i].auditor.key
            /\ events[i].auditName = slots[i].auditor.name
       /\ \A i \in done :
            /\ slots[i].handledAt \in 1..Cardinality(done)
            /\ \A j \in done : j # i => slots[j].handledAt # slots[i].handledAt
            /\ CompletionEventOf(i).type \in {"audit_completed", "audit_failed"}
            /\ CompletionEventOf(i).auditKey = slots[i].auditor.key
            /\ CompletionEventOf(i).auditName = slots[i].auditor.name
            /\ CompletionEventOf(i).result = ExpectedAudit(i)
            /\ pc = "resolved" => CompletionEventOf(i).result = report[1].audits[i]
       /\ pc = "resolved" => Len(events) = 2 * Len(Requested)

\* C8 witness: a finished run of two auditors that emitted four events, the
\* second auditor completing first
C8_Witness ==
  /\ pc = "resolved"
  /\ SinkIsFunction
  /\ Len(Requested) = 2
  /\ Len(events) = 4
  /\ slots[2].handledAt = 1

\* C9: the completion event is audit_failed exactly when the settled
\* result's status is FAIL, be it returned by the auditor or substituted
\* after an exception, and audit_completed for any other settled result.
C9_FailedIffStatusFail ==
  SinkIsFunction =>
    \A i \in 1..Len(slots) :
      slots[i].state = "handled" =>
        /\ CompletionEventOf(i).type = "audit_failed" <=> slots[i].result.status = "FAIL"
        /\ CompletionEventOf(i).type = "audit_completed" <=> slots[i].result.status # "FAIL"
        /\ slots[i].outcome.kind = "rejected" => CompletionEventOf(i).type = "audit_failed"
        /\ (slots[i].outcome.kind = "fulfilled"
              /\ slots[i].outcome.value.status \in {"PASS", "WARN"})
             => CompletionEventOf(i).type = "audit_completed"

\* C9 witness: one auditor returned FAIL itself, one threw, one event each
C9_Witness ==
  /\ SinkIsFunction
  /\ Len(slots) = 2
  /\ slots[1].state = "handled" /\ slots[2].state = "handled"
  /\ slots[1].outcome.kind = "fulfilled" /\ slots[1].outcome.value.status = "FAIL"
  /\ slots[2].outcome.kind = "rejected"
  /\ CompletionEventOf(1).type = "audit_failed"
  /\ CompletionEventOf(2).type = "audit_failed"

\* C10: how the call settles and what it returns depend on the input, the
\* registry and the outcomes of the auditors only, not on onAuditEvent; and
\* when onAuditEvent is absent or not a function nothing is emitted.
C10_SinkOnlyObserves ==
  /\ ~SinkIsFunction => events = <<>>
  /\ pc = "resolved" <=>
       /\ Validated
       /\ \A i \in 1..Len(Requested) : i <= Len(slots) /\ slots[i].state = "handled"
       /\ Len(report) = 1
  /\ pc = "rejected" <=> Started /\ ~Validated
  /\ pc = "resolved" =>
       LET audits == [i \in 1..Len(Requested) |-> ExpectedAudit(i)] IN
         /\ report[1].url = assertValidUrl(input.url).url
         /\ report[1].audits = audits
         /\ report[1].summary = summarizeLogs(audits)

\* C10 witness: a run given a non-function onAuditEvent resolved normally
\* with two audits and emitted nothing
C10_Witness ==
  /\ pc = "resolved"
  /\ options.onAuditEvent = "nonfunction"
  /\ Len(slots) = 2
  /\ events = <<>>
  /\ report[1].summary.totalAudits = 2

(***************************************************************************)
(* Properties of summarizeLogs (checked under SpecSummary)                 *)
(***************************************************************************)
\* the log entries of audit i, none when it has no logs property
PresentLogs(audits, i) == IF audits[i].hasLogs THEN audits[i].logs ELSE <<>>

\* the positions <<audit, entry>> of all log entries of the audits
EntryPositions(audits) ==
  UNION { { <<i, j>> : j \in 1..Len(PresentLogs(audits, i)) } : i \in 1..Len(audits) }

PositionsOfLevel(audits, level) ==
  { p \in EntryPositions(audits) : PresentLogs(audits, p[1])[p[2]].level = level }

\* audit order, then log order
Before(p, q) == p[1] < q[1] \/ (p[1] = q[1] /\ p[2] < q[2])

\* the k-th entry of a level in audit order then log order, as a finding
KthFinding(audits, level, k) ==
  LET ps == PositionsOfLevel(audits, level)
      p == CHOOSE q \in ps : Cardinality({r \in ps : Before(r, q)}) = k - 1
  IN [level |-> level, auditKey |-> audits[p[1]].key, auditName |-> audits[p[1]].name,
      message |-> PresentLogs(audits, p[1])[p[2]].message]

\* the indices of the audits whose details.score is a finite number
ScoredAudits(audits) ==
  { i \in 1..Len(audits) : /\ audits[i].details.present
                           /\ audits[i].details.scoreType = "number"
                           /\ audits[i].details.finite }

RECURSIVE SumOfScores(_, _)
SumOfScores(audits, is) ==
  IF is = {} THEN 0
  ELSE LET i == CHOOSE x \in is : TRUE
       IN audits[i].details.score + SumOfScores(audits, is \ {i})

IsSyntheticFailure(audit) ==
  /\ audit.status = "FAIL" /\ audit.details = NoScore /\ audit.hasLogs
  /\ Len(audit.logs) = 1 /\ audit.logs[1] = Entry("ERROR", "404 Not Found")

\* C11: totalAudits is the number of audits, and infoCount, warningCount and
\* errorCount are the numbers of log entries of level INFO, WARNING and ERROR
\* over the logs of all audits, synthetic failures included.
C11_CountsMatchLogs ==
  sumPc = "returned" =>
    /\ summary[1].totalAudits = Len(sumAudits)
    /\ summary[1].infoCount = Cardinality(PositionsOfLevel(sumAudits, "INFO"))
    /\ summary[1].warningCount = Cardinality(PositionsOfLevel(sumAudits, "WARNING"))
    /\ summary[1].errorCount = Cardinality(PositionsOfLevel(sumAudits, "ERROR"))

\* C11 witness: three audits, one of them a synthetic failure, with four
\* ERROR, two WARNING and one INFO entries between them
C11_Witness ==
  /\ sumPc = "returned"
  /\ Len(sumAudits) = 3
  /\ \E i \in 1..3 : IsSyntheticFailure(sumAudits[i])
  /\ summary[1].errorCount = 4
  /\ summary[1].warningCount = 2
  /\ summary[1].infoCount = 1

\* C12: topFindings is the first 5 of: all ERROR entries in audit order then
\* log order, followed by all WARNING entries in that order, each tagged
\* with its audit's key and name; so no WARNING is listed while an ERROR is
\* left out, and the length is min(5, warningCount + errorCount).
C12_TopFindingsRanked ==
  sumPc = "returned" =>
    LET top == summary[1].topFindings
        nErr == Cardinality(PositionsOfLevel(sumAudits, "ERROR"))
        nWarn == Cardinality(PositionsOfLevel(sumAudits, "WARNING"))
    IN /\ Len(top) = IF nErr + nWarn < 5 THEN nErr + nWarn ELSE 5
       /\ Len(top) = IF summary[1].warningCount + summary[1].errorCount < 5
                     THEN summary[1].warningCount + summary[1].errorCount ELSE 5
       /\ \A k \in 1..Len(top) :
            top[k] = IF k <= nErr THEN KthFinding(sumAudits, "ERROR", k)
                     ELSE KthFinding(sumAudits, "WARNING", k - nErr)
       /\ (\E k \in 1..Len(top) : top[k].level = "WARNING") =>
            Cardinality({k \in 1..Len(top) : top[k].level = "ERROR"}) = nErr

\* C12 witness: more than five findings, the first pushed being a WARNING,
\* and a top five that holds ERRORs first and then WARNINGs
C12_Witness ==
  /\ sumPc = "returned"
  /\ summary[1].warningCount + summary[1].errorCount > 5
  /\ PresentLogs(sumAudits, 1) # <<>>
  /\ PresentLogs(sumAudits, 1)[1].level = "WARNING"
  /\ Len(summary[1].topFindings) = 5
  /\ summary[1].topFindings[1].level = "ERROR"
  /\ summary[1].topFindings[5].level = "WARNING"

\* C13: overallScore is null when no audit has a finite numeric
\* details.score, otherwise the mean of exactly those scores rounded to the
\* nearest integer (halves up); scoring is null or {score: overallScore,
\* outOf: 100} accordingly; scores within 0..100 give a result within 0..100.
C13_OverallScoreIsRoundedMean ==
  sumPc = "returned" =>
    LET scored == ScoredAudits(sumAudits)
        n == Cardinality(scored)
        sum == SumOfScores(sumAudits, scored)
        s == summary[1]
    IN /\ s.overallScoreIsNull <=> scored = {}
       /\ s.overallScoreIsNull => s.scoring.isNull
       /\ ~s.overallScoreIsNull =>
            /\ 2 * (s.overallScore * n - sum) <= n
            /\ 2 * (s.overallScore * n - sum) > -n
            /\ s.scoring = [isNull |-> FALSE, score |-> s.overallScore, outOf |-> 100]
            /\ s.overallScore \in 0..100

\* C13 witness: scores 80, 80 and 85: the mean 81.67 is rounded to 82
C13_Witness ==
  /\ sumPc = "returned"
  /\ Len(sumAudits) = 3
  /\ ScoredAudits(sumAudits) = {1, 2, 3}
  /\ SumOfScores(sumAudits, {1, 2, 3}) = 245
  /\ summary[1].overallScore = 82

\* C14: summarizeLogs returns a summary, and never throws, for every sequence
\* of settled results, including results with a missing or non-numeric
\* details.score, without details, and with a missing or empty logs array.
C14_SummaryNeverThrows ==
  /\ sumPc # "threw"
  /\ sumPc = "returned" => Len(summary) = 1 /\ summary[1].totalAudits = Len(sumAudits)
  /\ sumPc = "collecting" => ENABLED Summarize

\* C14 witness: a summary of a result without logs, one without details and
\* one with a string score
C14_Witness ==
  /\ sumPc = "returned"
  /\ \E i \in 1..Len(sumAudits) : ~sumAudits[i].hasLogs
  /\ \E i \in 1..Len(sumAudits) : ~sumAudits[i].details.present
  /\ \E i \in 1..Len(sumAudits) : sumAudits[i].details.scoreType = "string"
  /\ Len(summary) = 1

(***************************************************************************)
(* Properties of results and of the registry (checked under Spec)          *)
(***************************************************************************)
\* the status the derivation law assigns to a logs array
LawStatus(logs) ==
  IF \E j \in 1..Len(logs) : logs[j].level = "ERROR" THEN "FAIL"
  ELSE IF \E j \in 1..Len(logs) : logs[j].level = "WARNING" THEN "WARN"
  ELSE "PASS"

ObeysStatusLaw(result) ==
  /\ result.status = "FAIL" <=> \E j \in 1..Len(result.logs) : result.logs[j].level = "ERROR"
  /\ result.status = "WARN" <=>
       /\ ~\E j \in 1..Len(result.logs) : result.logs[j].level = "ERROR"
       /\ \E j \in 1..Len(result.logs) : result.logs[j].level = "WARNING"
  /\ result.status = "PASS" <=>
       ~\E j \in 1..Len(result.logs) : result.logs[j].level \in {"ERROR", "WARNING"}

\* logs arrays of up to two entries over the three levels
LevelSeqs ==
  SeqsUpTo({ [level |-> l, message |-> "m"] : l \in {"INFO", "WARNING", "ERROR"} }, 2)

\* C15: every result in a report, and every result the runner has put in a
\* slot (the synthetic failure included), has status FAIL iff its logs hold
\* an ERROR, else WARN iff they hold a WARNING, else PASS; deriveStatus
\* computes this rule.
C15_StatusDerivationLaw ==
  /\ \A i \in 1..Len(slots) : slots[i].state = "handled" => ObeysStatusLaw(slots[i].result)
  /\ pc = "resolved" =>
       \A i \in 1..Len(report[1].audits) : ObeysStatusLaw(report[1].audits[i])
  /\ \A logs \in LevelSeqs : deriveStatus(logs) = LawStatus(logs)

\* C15 witness: a report with a synthetic failure (FAIL) and a WARN result
C15_Witness ==
  /\ pc = "resolved"
  /\ Len(slots) = 2
  /\ slots[1].outcome.kind = "rejected"
  /\ report[1].audits[1].status = "FAIL"
  /\ slots[2].outcome.kind = "fulfilled"
  /\ report[1].audits[2].status = "WARN"

\* C16: keys of the registry are unique and a key keeps the first auditor
\* registered under it; register of a present key throws "already
\* registered", register without a key throws the key-required error, and a
\* register that throws leaves the registry unchanged.
C16_RegistryKeysUnique ==
  /\ [](\A i, j \in 1..Len(registry) : registry[i].key = registry[j].key => i = j)
  /\ [][ /\ \A i \in 1..Len(registry) :
              i <= Len(registry') /\ registry'[i] = registry[i]
         /\ \A a \in Auditors :
              Register(a) =>
                /\ a.key = "" =>
                     regError' = "Auditor key is required" /\ registry' = registry
                /\ (a.key # "" /\ \E i \in 1..Len(registry) : registry[i].key = a.key) =>
                     /\ regError' = "Auditor \"" \o a.key \o "\" is already registered"
                     /\ registry' = registry
                /\ (a.key # "" /\ ~\E i \in 1..Len(registry) : registry[i].key = a.key) =>
                     regError' = "" /\ registry' = Append(registry, a)
         /\ regError' # "" => registry' = registry ]_vars

\* C16 witness: a second auditor with key "perf" was refused while the first
\* stays registered
C16_Witness ==
  /\ regError = "Auditor \"perf\" is already registered"
  /\ Len(registry) = 2
  /\ \E i \in 1..2 : registry[i] = [key |-> "perf", name |-> "Performance Auditor"]

\* C17: with input.types omitted, every auditor in the registry is run
\* exactly once and the audits follow registration order; the registry a
\* run leaves behind is the one it was given.
C17_DefaultsToRegistryOrder ==
  (Started /\ ~input.hasTypes /\ WellFormedHttpUrl(input.url)) =>
    /\ pc \in {"awaiting", "resolved"}
    /\ Len(slots) = Len(registry)
    /\ \A i \in 1..Len(slots) : slots[i].auditor = registry[i]
    /\ \A i, j \in 1..Len(slots) : slots[i].auditor.key = slots[j].auditor.key => i = j
    /\ pc = "resolved" =>
         /\ Len(report[1].audits) = Len(registry)
         /\ \A i \in 1..Len(registry) : report[1].audits[i].key = registry[i].key

\* C17 witness: "seo" registered before "perf", types omitted, and the
\* auditor of "perf" handled first
C17_Witness ==
  /\ pc = "resolved"
  /\ ~input.hasTypes
  /\ Len(registry) = 2
  /\ registry[1].key = "seo"
  /\ slots[2].handledAt = 1
  /\ report[1].audits[1].key = "seo"

(***************************************************************************)
(* Properties of the controller (checked under SpecCache, SpecDeep and     *)
(* SpecProgress)                                                           *)
(***************************************************************************)
\* the answer a request gets from the cache: 200, the payload, no service call
AnsweredFromCache(endpoint, in, payload) ==
  [endpoint |-> endpoint, input |-> in, at |-> now, status |-> 200, payload |-> payload,
   error |-> NoError, runAllCalls |-> 0, runDeepCalls |-> 0]

\* the request identity was last computed, successfully, less than the TTL ago
ComputedWithinTtl(id) ==
  /\ id \in DOMAIN lastComputed
  /\ now < lastComputed[id].at + cacheTtl.ms

\* the last answer given was a 200 to this request identity, less than the TTL ago
AnsweredWithinTtl(id) ==
  /\ lastResponse.status = 200
  /\ <<lastResponse.endpoint, lastResponse.input>> = id
  /\ now < lastResponse.at + cacheTtl.ms

\* C18 as stated: a request of /all or /deep whose parsed payload is that of
\* an earlier request of the same endpoint that completed successfully within
\* the TTL, whichever way that request was answered, is answered 200 from the
\* cache without a call of runAllAudits or runDeepAudit.
C18_AnsweredAfterAnyCompletion ==
  [][\A endpoint \in Endpoints, body \in CacheBodies :
       LET parsed == parseAllAuditsInput(body) IN
       (/\ ReceiveRequest(endpoint, body)
        /\ parsed.ok
        /\ AnsweredWithinTtl(<<endpoint, parsed.value>>))
       => (/\ lastResponse'.status = 200
           /\ lastResponse'.runAllCalls = 0
           /\ lastResponse'.runDeepCalls = 0
           /\ requests' = requests)]_vars

\* C18 (amended): a request of /all or /deep whose parsed payload is that of
\* an earlier request of the same endpoint that ran its audits and completed
\* successfully less than the TTL ago is answered 200 with the payload that
\* request stored, without a call of runAllAudits or runDeepAudit; and whatever
\* is answered from the cache was stored by a request of the same endpoint
\* with the same parsed payload, never by the other endpoint.
C18_CacheAnswersRepeat ==
  /\ [][\A endpoint \in Endpoints, body \in CacheBodies :
         LET parsed == parseAllAuditsInput(body)
             id == <<endpoint, parsed.value>>
         IN
         (ReceiveRequest(endpoint, body) /\ parsed.ok /\ ComputedWithinTtl(id))
         => (/\ lastResponse'
                   = AnsweredFromCache(endpoint, parsed.value, lastComputed[id].payload)
             /\ requests' = requests)]_vars
  /\ [](lastResponse.status = 200 /\ lastResponse.runAllCalls = 0
         => LET id == <<lastResponse.endpoint, lastResponse.input>> IN
            /\ id \in DOMAIN lastComputed
            /\ lastResponse.payload = lastComputed[id].payload
            /\ lastResponse.payload.hasDeepAnalysis = (lastResponse.endpoint = "deep"))

\* a /deep request answered from the cache, later than the entry was computed,
\* while the cache holds an /all entry for the same parsed payload
C18_Witness ==
  /\ lastResponse.status = 200
  /\ lastResponse.runAllCalls = 0
  /\ lastResponse.endpoint = "deep"
  /\ <<"all", lastResponse.input>> \in DOMAIN lastComputed
  /\ buildCacheKey("all", lastResponse.input) \in DOMAIN cache
  /\ lastResponse.at > lastComputed[<<"deep", lastResponse.input>>].at

\* a baseline report whose summary.overallScore is a finite number >= 90 and
\* whose summary.errorCount is 0
HealthyBaseline(rep) ==
  /\ ~rep.summary.overallScoreIsNull
  /\ rep.summary.overallScore >= 90
  /\ rep.summary.errorCount = 0

\* the analysis is the SYSTEM_NOMINAL one and runDeepAudit was not called when
\* the report is healthy; otherwise runDeepAudit was called exactly once
DecidedBy(rep, analysis, deepCalls) ==
  IF HealthyBaseline(rep)
  THEN deepCalls = 0 /\ analysis.agent_status = "SYSTEM_NOMINAL"
  ELSE deepCalls = 1

\* C19: in /deep and /deep/progress the LLM call is skipped, and the
\* SYSTEM_NOMINAL analysis returned, exactly when the baseline report has a
\* finite overallScore >= 90 and errorCount 0; in every other case, a null
\* overallScore included, runDeepAudit is invoked exactly once for the
\* request, and never before the baseline report is there.
C19_SkipsExactlyWhenHealthy ==
  /\ \A request \in InFlight :
       /\ request.pc = "baseline" => request.runDeepCalls = 0
       /\ request.pc = "deep"
            => ~HealthyBaseline(request.report) /\ request.runDeepCalls = 1
  /\ (lastResponse.endpoint = "deep" /\ lastResponse.status = 200
        /\ lastResponse.runAllCalls = 1)
       => DecidedBy(lastResponse.payload.report, lastResponse.payload.deepAnalysis,
                    lastResponse.runDeepCalls)
  /\ spc \in {"idle", "baseline"} => streamDeepCalls = 0
  /\ spc = "deep" => ~HealthyBaseline(standardReport) /\ streamDeepCalls = 1
  /\ (spc = "ended" /\ standardReport # NoReport)
       => (HealthyBaseline(standardReport) <=> streamDeepCalls = 0) /\ streamDeepCalls <= 1
  /\ (spc = "ended" /\ responsePayload # NoPayload)
       => DecidedBy(standardReport, responsePayload.deepAnalysis, streamDeepCalls)

\* a /deep request answered without the LLM call on a report scoring exactly
\* 90 with no errors, while another /deep request, whose report has no
\* overallScore, waits for its one runDeepAudit call
C19_Witness ==
  /\ lastResponse.endpoint = "deep"
  /\ lastResponse.status = 200
  /\ lastResponse.runAllCalls = 1
  /\ lastResponse.runDeepCalls = 0
  /\ lastResponse.payload.report.summary.overallScore = 90
  /\ lastResponse.payload.deepAnalysis = createNominalDeepAnalysis
  /\ \E request \in InFlight :
       /\ request.pc = "deep"
       /\ request.report.summary.overallScoreIsNull
       /\ request.runDeepCalls = 1

\* the events that reached the response, in the order they were written
Written == SelectSeq(sse, LAMBDA e : e.written)

\* the place of a stage in the documented list; the two outcomes of the
\* deep-analysis step share one place
StageRank(stage) ==
  CASE stage = "request_received" -> 1
    [] stage = "baseline_audit_started" -> 2
    [] stage = "baseline_audit_progress" -> 3
    [] stage = "audit_report" -> 4
    [] stage = "baseline_audit_completed" -> 5
    [] stage = "deep_analysis_started" -> 6
    [] stage = "deep_analysis_progress" -> 7
    [] stage \in {"deep_analysis_completed", "deep_analysis_skipped"} -> 8
    [] stage = "response_preparing" -> 9
    [] stage = "response_dispatched" -> 10
    [] stage = "request_failed" -> 11

\* the stages the documented list calls repeated
RepeatedStages == {"baseline_audit_progress", "audit_report", "deep_analysis_progress"}

CountStage(log, stage) == Cardinality({i \in 1..Len(log) : log[i].stage = stage})

\* the request got its result and every event it emitted was written
SuccessfulStream ==
  /\ spc = "ended"
  /\ responsePayload # NoPayload
  /\ \A i \in 1..Len(sse) : sse[i].written

\* C20: the stages of a /deep/progress stream are written in the documented
\* order: request_received, baseline_audit_started, baseline_audit_progress
\* (one per audit started, one per audit completed), audit_report (one per
\* audit), baseline_audit_completed, deep_analysis_started,
\* deep_analysis_progress, then deep_analysis_completed or
\* deep_analysis_skipped, response_preparing, and last the SSE event
\* 'completed' with stage response_dispatched; only the repeated stages occur
\* more than once and no stage is written out of this order.
C20_StagesInDocumentedOrder ==
  /\ \A i \in 1..(Len(Written) - 1) :
       \/ StageRank(Written[i].stage) < StageRank(Written[i + 1].stage)
       \/ /\ Written[i].stage = Written[i + 1].stage
          /\ Written[i].stage \in RepeatedStages
  /\ SuccessfulStream
       => /\ Written[1].stage = "request_received"
          /\ Written[2].stage = "baseline_audit_started"
          /\ CountStage(Written, "baseline_audit_progress") = 2 * baselineStartedCount
          /\ CountStage(Written, "audit_report") = baselineStartedCount
          /\ CountStage(Written, "baseline_audit_completed") = 1
          /\ CountStage(Written, "response_preparing") = 1
          /\ Written[Len(Written)].event = "completed"
          /\ Written[Len(Written)].stage = "response_dispatched"
          /\ \A i \in 1..(Len(Written) - 1) : Written[i].event = "progress"

\* the positions of the heartbeats in the log of the stream
Heartbeats == {i \in 1..Len(sse) : sse[i].stage = "deep_analysis_progress"}

\* C21: while the LLM call is pending, the deep_analysis_progress heartbeats
\* carry a progress that never decreases from one heartbeat to the next, is
\* above the 80 of deep_analysis_started and below the 95 of
\* deep_analysis_completed, however many heartbeats the call takes.
C21_HeartbeatProgressBounded ==
  /\ \A i \in Heartbeats :
       /\ sse[i].progress > TemplateProgress("deep_analysis_started")
       /\ sse[i].progress < TemplateProgress("deep_analysis_completed")
  /\ \A i, j \in Heartbeats : i < j => sse[i].progress <= sse[j].progress

\* the call is still pending after a minute: the estimate has climbed by one
\* per heartbeat and has stood at its cap for two heartbeats
C21_Witness ==
  /\ spc = "deep"
  /\ liveTimers = 1
  /\ elapsedSeconds = 60
  /\ \E i, j \in Heartbeats :
       /\ j = i + 1
       /\ sse[i].progress = 94
       /\ sse[j].progress = 94
  /\ \E i \in Heartbeats : sse[i].progress = 81

(***************************************************************************)
(* Properties of fetchWithTimeout                                          *)
(***************************************************************************)
\* C22: with timeoutMs = 0 the call never arms a timer, never aborts the
\* request and never times out, however long the fetcher takes, and settles as
\* the fetcher does.  With timeoutMs > 0 a request still in flight when
\* timeoutMs has elapsed is aborted and the call fails with a TimeoutError
\* naming timeoutMs, not before timeoutMs; a fetcher that settles first has
\* its own result or error as the outcome of the call, the signal is not
\* aborted and the timer is cancelled.
C22_TimeoutOnlyWhenNonzero ==
  /\ (ftPc # "idle" /\ ftTimeoutMs = 0) =>
       /\ ftTimer = "none"
       /\ ~ftAborted
       /\ ftOutcome.name # "TimeoutError"
       /\ ftPc = "settled" => ftOutcome = ftFetcher
  /\ (ftPc # "idle" /\ ftTimeoutMs > 0) =>
       /\ ftElapsed > ftTimeoutMs => ftPc = "settled"
       /\ (ftPc = "pending" /\ ftElapsed >= ftTimeoutMs) =>
            (ftTimer = "armed" \/ ftAborted)
       /\ (ftPc = "settled" /\ ftAborted) =>
            /\ ftOutcome = TimeoutError(ftTimeoutMs)
            /\ ftSettledAt >= ftTimeoutMs
       /\ (ftPc = "settled" /\ ~ftAborted) =>
            /\ ftOutcome = ftFetcher
            /\ ftOutcome \in FetcherSettlements
            /\ ftTimer = "cleared"
            /\ ftSettledAt <= ftTimeoutMs

\* a call with the 5 ms of the test timed out at 5 ms, and the clock has
\* moved on since
C22_Witness ==
  /\ ftPc = "settled"
  /\ ftTimeoutMs = 5
  /\ ftAborted
  /\ ftFetcher = AbortError
  /\ ftOutcome = TimeoutError(5)
  /\ ftSettledAt = 5
  /\ ftElapsed > 5

(***************************************************************************)
(* Properties of the link-health phase (checked under SpecLinks)           *)
(***************************************************************************)
\* the call analyzeLinkHealth makes: limit LINK_CHECK_CONCURRENCY
LinkHealthPhase == mapPc # "idle" /\ concurrency = LINK_CHECK_CONCURRENCY

\* C23: during the link-health phase there are at no moment more than
\* LINK_CHECK_CONCURRENCY (five) link checks in flight, for any number of
\* links and any order in which the checks finish, and with several links more
\* than one check runs at a time.
C23_AtMostFiveInFlight ==
  LinkHealthPhase =>
    /\ inFlight = Cardinality(AwaitingWorkers(workers))
    /\ inFlight <= LINK_CHECK_CONCURRENCY
    /\ maxInFlight <= LINK_CHECK_CONCURRENCY
    /\ Len(items) > 1 => maxInFlight > 1

\* a page with more links than the limit has been checked; five checks ran
\* together and never more
C23_Witness ==
  /\ LinkHealthPhase
  /\ mapPc = "returned"
  /\ Len(items) > LINK_CHECK_CONCURRENCY
  /\ linkHealth.totalChecked = Len(items)
  /\ maxInFlight = LINK_CHECK_CONCURRENCY

\* C30: mapWithConcurrency calls the iterator exactly once for every item: no
\* index is claimed by two workers, none is skipped; results[i] is the outcome
\* of items[i]; it returns only when every iterator call has settled, whatever
\* the limit and the order in which the calls finish.
C30_EachItemOnce ==
  /\ \A i \in DOMAIN iteratorCalls : iteratorCalls[i] <= 1
  /\ \A v, w \in AwaitingWorkers(workers) :
       workers[v].currentIndex = workers[w].currentIndex => v = w
  /\ \A w \in AwaitingWorkers(workers) :
       /\ workers[w].currentIndex + 1 \in DOMAIN items
       /\ iteratorCalls[workers[w].currentIndex + 1] = 1
       /\ results[workers[w].currentIndex + 1] = EmptySlot
  /\ \A i \in DOMAIN results :
       results[i] # EmptySlot =>
         /\ iteratorCalls[i] = 1
         /\ results[i].url = items[i].url
         /\ results[i].statusCode \in LinkOutcomes
  /\ (mapPc = "returned" \/ (mapPc = "running" /\ AwaitingWorkers(workers) = {})) =>
       /\ Len(results) = Len(items)
       /\ \A i \in DOMAIN items :
            /\ iteratorCalls[i] = 1
            /\ results[i] # EmptySlot
  /\ mapPc = "returned" =>
       /\ linkHealth.totalChecked = Len(items)
       /\ \A i \in DOMAIN items :
            results[i].isBroken <=>
              \E k \in DOMAIN linkHealth.deadLinks : linkHealth.deadLinks[k] = items[i].url

\* two workers have checked the most links there are; the first and the last
\* link failed and are the ones reported dead
C30_Witness ==
  /\ mapPc = "returned"
  /\ concurrency = 2
  /\ Len(items) = MaxLinks
  /\ \A i \in DOMAIN items : iteratorCalls[i] = 1
  /\ nextIndex = Len(items) + 2
  /\ linkHealth.deadLinks = <<LinkUrl(0), LinkUrl(MaxLinks - 1)>>

(***************************************************************************)
(* Properties of the stream and of the cache, continued                    *)
(***************************************************************************)
\* res has emitted 'close' or req has emitted 'aborted'
ClosingFired == fired \cap {"req_aborted", "res_close"} # {}

\* the handler of /deep/progress has run to its end
StreamOver == spc = "ended"

\* C24: an event is written to the response iff, when it is emitted, neither
\* res 'close' nor req 'aborted' has fired; req 'close' alone does not close
\* the stream: the stages up to the final event are written and the response
\* is ended.  Once the connection is closed nothing more is written and the
\* handler does not end the response.
C24_WrittenIffOpen ==
  /\ [][\A i \in (Len(sse) + 1)..Len(sse') : sse'[i].written <=> ~ClosingFired]_vars
  /\ [](StreamOver => (resEnded <=> ~ClosingFired))
  /\ []((StreamOver /\ ~ClosingFired) =>
          /\ Written = sse
          /\ sse[Len(sse)].event \in {"completed", "error"})
  /\ []((StreamOver /\ ClosingFired) =>
          \A i \in DOMAIN Written : Written[i].event = "progress")

\* req emitted 'close' while runDeepAudit was pending, and nothing else: the
\* heartbeat, the closing stages and 'completed' were written after it and
\* the response was ended
C24_Witness ==
  /\ StreamOver
  /\ fired = {"req_close"}
  /\ streamDeepCalls = 1
  /\ resEnded
  /\ Len(sse) > 3
  /\ sse[Len(sse) - 3].stage = "deep_analysis_progress"
  /\ sse[Len(sse)] = [event |-> "completed", stage |-> "response_dispatched",
                      status |-> TemplateStatus("response_dispatched"),
                      progress |-> 100, written |-> TRUE]

\* CACHE_TTL_MS is a finite number above 0
TtlPositive == cacheTtl.finite /\ cacheTtl.ms > 0

\* the cache holds an entry under the key whose expiry time has come
Expired(key) == key \in DOMAIN cache /\ cache[key].expiresAt <= now

\* the handler call of a request that missed the cache and called runAllAudits
MissedRequest(endpoint, in) ==
  [NewRequest(endpoint, in) EXCEPT !.pc = "baseline", !.runAllCalls = 1]

\* C25: a cached /all or /deep response is never served at or after its
\* expiry: a lookup made when now >= expiresAt removes the entry, is a miss
\* and runs the audits again; with a TTL of 0, negative or not finite nothing
\* is ever stored and nothing is served from the cache.
C25_NeverServedExpired ==
  /\ [][\A endpoint \in Endpoints, body \in CacheBodies :
         LET parsed == parseAllAuditsInput(body)
             key == buildCacheKey(endpoint, parsed.value)
         IN
         (ReceiveRequest(endpoint, body) /\ parsed.ok /\ (Expired(key) \/ ~TtlPositive))
         => (/\ key \notin DOMAIN cache'
             /\ requests' = Suspended(MissedRequest(endpoint, parsed.value))
             /\ lastResponse' = lastResponse)]_vars
  /\ [](lastResponse.status = 200 /\ lastResponse.runAllCalls = 0
         => LET id == <<lastResponse.endpoint, lastResponse.input>> IN
            /\ TtlPositive
            /\ id \in DOMAIN lastComputed
            /\ lastResponse.at < lastComputed[id].at + cacheTtl.ms)
  /\ [](~TtlPositive => cache = <<>>)
  /\ [](\A key \in DOMAIN cache : cache[key].expiresAt <= now + cacheTtl.ms)

\* a request arrived exactly one TTL after the response to its like was
\* computed: the entry is gone and runAllAudits is running again
C25_Witness ==
  \E endpoint \in Endpoints, body \in CacheBodies :
    LET parsed == parseAllAuditsInput(body)
        id == <<endpoint, parsed.value>>
    IN
    /\ parsed.ok
    /\ TtlPositive
    /\ id \in DOMAIN lastComputed
    /\ now = lastComputed[id].at + cacheTtl.ms
    /\ MissedRequest(endpoint, parsed.value) \in InFlight
    /\ buildCacheKey(endpoint, parsed.value) \notin DOMAIN cache

\* C26: the progress values of the successive events written in one stream
\* never decrease: each written event's progress is at least that of the
\* written event before it.
C26_ProgressNeverDecreases ==
  \A i \in 1..(Len(Written) - 1) : Written[i].progress <= Written[i + 1].progress

\* the stages after which the stream carries no heartbeat
AfterDeepAnalysis == {"deep_analysis_completed", "request_failed", "response_dispatched"}

\* C27: the heartbeat timer is cleared as soon as runDeepAudit settles, by
\* success or by failure, and on every exit of the handler; a request has at
\* most one heartbeat timer, which lives exactly while runDeepAudit is
\* pending; no deep_analysis_progress event follows deep_analysis_completed or
\* the error event, and none is emitted once the handler is over or the
\* response ended.
C27_HeartbeatStopsWithDeepAudit ==
  /\ liveTimers <= 1
  /\ liveTimers = 1 <=> spc = "deep"
  /\ liveTimers = 1 <=> deepAnalysisInterval # "null"
  /\ streamDeepCalls <= 1
  /\ (StreamOver \/ resEnded) => liveTimers = 0
  /\ \A i, j \in DOMAIN sse :
       (i < j /\ sse[i].stage \in AfterDeepAnalysis) => sse[j].stage # "deep_analysis_progress"

\* runDeepAudit failed after two heartbeats: the timer is gone, the error
\* event follows the second heartbeat and the response is ended
C27_Witness ==
  /\ StreamOver
  /\ streamDeepCalls = 1
  /\ liveTimers = 0
  /\ deepAnalysisInterval = "null"
  /\ resEnded
  /\ elapsedSeconds = 2 * (DEEP_ANALYSIS_PROGRESS_INTERVAL_MS \div 1000)
  /\ Len(sse) > 1
  /\ sse[Len(sse)].event = "error"
  /\ sse[Len(sse) - 1].stage = "deep_analysis_progress"
  /\ sse[Len(sse) - 1].written

\* a handler call for this request identity is awaiting its audits
StillRunning(id) == \E request \in InFlight : RequestId(request) = id

\* C28: identical /all (or /deep) requests that overlap are covered by the
\* cache: a request that arrives while an identical one is still running its
\* audits does not invoke runAllAudits again.
C28_OverlappingRequestsShareRun ==
  [][\A endpoint \in Endpoints, body \in CacheBodies :
       LET parsed == parseAllAuditsInput(body) IN
       (/\ ReceiveRequest(endpoint, body)
        /\ parsed.ok
        /\ TtlPositive
        /\ StillRunning(<<endpoint, parsed.value>>))
       => requests' = requests]_vars

\* what the cache holds under the key is what the last successful request of
\* that identity computed
HoldsComputed(key) ==
  \E id \in DOMAIN lastComputed :
    /\ key = buildCacheKey(id[1], id[2])
    /\ cache[key].payload = lastComputed[id].payload
    /\ cache[key].payload # NoPayload

\* C29: when input parsing, runAllAudits or the deep-analysis step throws in
\* analyzeAll or analyzeDeep, the error goes to next, the handler sends no
\* response and the cache is left as it was; the cache never holds anything
\* but successfully computed payloads, so a later identical request is
\* answered from such a payload or runs the audits again, and never gets the
\* failure replayed.
C29_FailureNeverCached ==
  /\ [][\A awaiting \in Awaiting, err \in ServiceErrors :
         ServiceRejects(awaiting, err)
         => (/\ cache' = cache
             /\ lastResponse'.status = 0
             /\ lastResponse'.payload = NoPayload
             /\ lastResponse'.error = err)]_vars
  /\ [][\A endpoint \in Endpoints, body \in CacheBodies :
         LET parsed == parseAllAuditsInput(body)
             key == buildCacheKey(endpoint, parsed.value)
         IN
         ReceiveRequest(endpoint, body)
         => IF ~parsed.ok
            THEN /\ cache' = cache
                 /\ requests' = requests
                 /\ lastResponse'.status = 0
                 /\ lastResponse'.payload = NoPayload
                 /\ lastResponse'.error = parsed.error
            ELSE \/ requests' = Suspended(MissedRequest(endpoint, parsed.value))
                 \/ /\ key \in DOMAIN cache
                    /\ lastResponse' = AnsweredFromCache(endpoint, parsed.value,
                                                         cache[key].payload)]_vars
  /\ [](\A key \in DOMAIN cache : HoldsComputed(key))
  /\ [](lastResponse.status = 0 => lastResponse.payload = NoPayload)

\* the last thing that happened is a failure of the service, nothing is
\* cached under the key of the failed request, and an identical request is
\* running its audits
C29_Witness ==
  /\ TtlPositive
  /\ lastResponse.status = 0
  /\ lastResponse.error \in ServiceErrors
  /\ lastResponse.runAllCalls = 1
  /\ buildCacheKey(lastResponse.endpoint, lastResponse.input) \notin DOMAIN cache
  /\ now > lastResponse.at
  /\ requests = SetToBag({MissedRequest(lastResponse.endpoint, lastResponse.input)})

====
